---- MODULE Spec2Model ----
(***************************************************************************)
(* A model of macapptool's notarization workflow (src/notarize.go):        *)
(* bundle-identifier extraction from a zip payload, submission to the      *)
(* notarization service, polling for the result, stapling and verifying.   *)
(*                                                                         *)
(* Strings are sequences of one-character strings, so that the regular     *)
(* expressions and the path functions of the program are computed on the   *)
(* characters, as the program computes them.                               *)
(***************************************************************************)
EXTENDS Integers, Sequences, FiniteSets, TLC

VARIABLES
    pc,         \* position of the run in notarizePayload and its callees
    supplied,   \* the ticket the caller put in the request (<<>> for "")
    archive,    \* the zip payload at req.AppPath: its entries, in archive order
    dryRun,     \* the -n flag
    reqUUID,    \* req.UUID of notarizePayload
    pos,        \* zipPayloadReader.pos
    count,      \* findPrimaryBundleID: count
    last,       \* findPrimaryBundleID: last
    opened,     \* the archive entries opened with pr.Open(), by index (1-based)
    bundleID,   \* the value findPrimaryBundleID returned
    findErr,    \* the error findPrimaryBundleID returned ("" for nil)
    buf,        \* submitForNotarization: the captured output, as lines
    cmdErr,     \* the error of the command that just ran: "", "exit", "start"
    ticket,     \* the value submitForNotarization returned
    submitErr,  \* the error submitForNotarization returned
    info,       \* waitForNotarization: the captured status output, as lines
    status,     \* waitForNotarization: m[1] of the last status match
    answers,    \* what the service answered to each status query so far
    logFetch,   \* the fetch of the failure log: "none", "failed", "fetched"
    waitErr,    \* the error waitForNotarization returned ("" for nil and while running)
    stapleDir,  \* stapleAndVerify: the temporary directory: "none", "exists", "removed"
    unzipped,   \* stapleAndVerify: p and canStaple, as unzipPayload returned them
    zipAtPath,  \* the file at req.AppPath: "original" or "stapled"
    trace,      \* the external operations of the run, in order
    err,        \* the error notarizePayload returned ("" for nil and while running)
    username,   \* req.Username
    password,   \* req.Password
    verbose,    \* the -v flag
    artifact,   \* the path notarizeFile was called with
    appPath,    \* req.AppPath
    files,      \* what lies at each path of the working directory
    echo,       \* the command line writeCommandOutputOnDir printed last
    tree,       \* sign: the directory tree at the argument, as its set of paths
    stack,      \* sign: the calls of signPath in progress, innermost last
    signed,     \* sign: the paths signEntry was called with, in order
    Output,     \* zip: c.Output, the -o flag (<<>> for "")
    Delete,     \* zip: c.Delete, the -d flag
    Force,      \* zip: c.Force, the -f flag
    IncludeMacOSSuffix, \* zip: the -m flag
    infoPlist,  \* zip: the Info.plist of the bundle at appPath
    output,     \* zip: the output filename of zipFile
    outputFile, \* zip: what lies at the output filename: "absent", "old", "dir", "new"
    appBundle,  \* zip: the bundle at appPath: "present" or "removed"
    fs0,        \* fix: the files of the bundle when the command starts
    fs,         \* fix: the files of the bundle: type and link target by path
    frameworks, \* fix: fixApp: the frameworks still to fix
    work        \* fix: fixFramework: the entries still to look at

inputVars == <<supplied, archive, dryRun, username, password, verbose, artifact>>
fileVars == <<appPath, files>>
signVars == <<tree, stack, signed>>
zipVars == <<Output, Delete, Force, IncludeMacOSSuffix, infoPlist, output, outputFile, appBundle>>
fixVars == <<fs0, fs, frameworks, work>>
otherVars == <<signVars, zipVars, fixVars>>
findVars == <<pos, count, last, opened, bundleID, findErr>>
submitVars == <<buf, ticket, submitErr>>
pollVars == <<info, status, answers, logFetch, waitErr>>
stapleVars == <<stapleDir, unzipped, zipAtPath>>

vars == <<pc, inputVars, reqUUID, findVars, submitVars, cmdErr, pollVars,
          stapleVars, trace, err, fileVars, echo, otherVars>>

----------------------------------------------------------------------------
(* Bounds of the model. *)

\* the most entries of an archive
MaxEntries == 2
\* the most pieces (lines) of a captured command output
MaxPieces == 2
\* the most `in progress` answers the service gives during one run
MaxInProgress == 2

----------------------------------------------------------------------------
(* Characters and strings. *)

Digit == {"0","1","2","3","4","5","6","7","8","9"}
Lower == {"a","b","c","d","e","f","g","h","i","j","k","l","m",
          "n","o","p","q","r","s","t","u","v","w","x","y","z"}
Upper == {"A","B","C","D","E","F","G","H","I","J","K","L","M",
          "N","O","P","Q","R","S","T","U","V","W","X","Y","Z"}

\* [0-9a-z\-]
TicketChar == Digit \cup Lower \cup {"-"}
\* [\w ]
StatusChar == Digit \cup Lower \cup Upper \cup {"_", " "}

\* s[i..j] as Go's s[i-1:j]
Slice(s, i, j) == [k \in 1..(j - i + 1) |-> s[i + k - 1]]

\* whether lit occurs in s at position i
HasAt(s, i, lit) ==
    /\ i >= 1
    /\ i + Len(lit) - 1 <= Len(s)
    /\ \A k \in 1..Len(lit) : s[i + k - 1] = lit[k]

\* the end of the longest run of characters of class that starts at i (i-1 when empty)
RECURSIVE RunEnd(_, _, _)
RunEnd(s, i, class) ==
    IF i <= Len(s) /\ s[i] \in class THEN RunEnd(s, i + 1, class) ELSE i - 1

\* every character but the newline: the `.` of the regexp package
AnyChar == Digit \cup Lower \cup Upper \cup
           {"_", " ", "-", ".", "/", ":", "=", "(", ")", ","}

\* regexp.FindStringSubmatch for a pattern lit(class{least,}): the leftmost match
\* and its greedy group; found = FALSE is the nil result.
FindStringSubmatch(lit, class, least, s) ==
    LET starts == {i \in 1..Len(s) :
                      /\ HasAt(s, i, lit)
                      /\ RunEnd(s, i + Len(lit), class) - (i + Len(lit)) + 1 >= least}
    IN  IF starts = {}
        THEN [found |-> FALSE, group |-> <<>>]
        ELSE LET i == CHOOSE x \in starts : \A y \in starts : x <= y
                 b == i + Len(lit)
             IN  [found |-> TRUE, group |-> Slice(s, b, RunEnd(s, b, class))]

statusRe(s) ==
    FindStringSubmatch(<<"S","t","a","t","u","s",":"," ">>, StatusChar, 1, s)
uuidRe(s) ==
    FindStringSubmatch(<<"R","e","q","u","e","s","t","U","U","I","D"," ","="," ">>,
                       TicketChar, 1, s)
logFileURLRe(s) ==
    FindStringSubmatch(<<"L","o","g","F","i","l","e","U","R","L",":"," ">>, AnyChar, 0, s)
uuidAltRe(s) ==
    FindStringSubmatch(<<"T","h","e"," ","u","p","l","o","a","d"," ","I","D"," ","i","s"," ">>,
                       TicketChar, 1, s)

----------------------------------------------------------------------------
(* Paths. *)

\* strings.IndexByte(s, c), 0-based, -1 when c is not in s
IndexByte(s, c) ==
    LET at == {i \in 1..Len(s) : s[i] = c}
    IN  IF at = {} THEN -1 ELSE (CHOOSE x \in at : \A y \in at : x <= y) - 1

\* strings.Split(s, sep) for a one-character separator
RECURSIVE Split(_, _)
Split(s, sep) ==
    LET i == IndexByte(s, sep)
    IN  IF i < 0 THEN <<s>>
        ELSE <<Slice(s, 1, i)>> \o Split(Slice(s, i + 2, Len(s)), sep)

\* filepath.Ext(path): the suffix from the last dot of the last element, or ""
RECURSIVE ExtFrom(_, _)
ExtFrom(path, i) ==
    IF i < 1 \/ path[i] = "/" THEN <<>>
    ELSE IF path[i] = "." THEN Slice(path, i, Len(path))
    ELSE ExtFrom(path, i - 1)
Ext(path) == ExtFrom(path, Len(path))

----------------------------------------------------------------------------
(* Property lists (src/internal/plist/plist.go). *)

\* plist.New: the decoded mapping, or the decoder's error
New(body) ==
    IF body.decodes THEN [data |-> body.data, err |-> ""]
    ELSE [data |-> body.data, err |-> "plist decode error"]

\* PList.stringKey
stringKey(data, key) ==
    IF key \notin DOMAIN data THEN [value |-> <<>>, err |-> "key not found"]
    ELSE IF data[key].type # "string" THEN [value |-> <<>>, err |-> "invalid type"]
    ELSE [value |-> data[key].value, err |-> ""]

BundleIdentifier(data) == stringKey(data, "CFBundleIdentifier")

----------------------------------------------------------------------------
(* The payloads of the model: zip archives as sequences of entries.  An    *)
(* entry has the name, the mode (493 is 0755, 420 is 0644) and the body    *)
(* the archive stores; `kind` is not read by the program: it says what the *)
(* entry was built as.                                                     *)

Slash == <<"/">>
AppA == <<"A",".","a","p","p">>
AppB == <<"B",".","a","p","p">>
DirTxt == <<"A",".","t","x","t">>
ContentsName == <<"C","o","n","t","e","n","t","s">>
InfoPlistName == <<"I","n","f","o",".","p","l","i","s","t">>
ToolName == <<"t","o","o","l">>
BinName == <<"b","i","n">>

IdA == <<"c","o","m",".","a">>
IdB == <<"c","o","m",".","b">>
IdN == <<"c","o","m",".","n">>

PlistOf(id) ==
    [decodes |-> TRUE, data |-> [CFBundleIdentifier |-> [type |-> "string", value |-> id]]]
PlistNoKey ==
    [decodes |-> TRUE, data |-> [CFBundleName |-> [type |-> "string", value |-> <<"A">>]]]
PlistWrongType ==
    [decodes |-> TRUE, data |-> [CFBundleIdentifier |-> [type |-> "integer", value |-> <<"7">>]]]
NotAPlist ==
    [decodes |-> FALSE, data |-> [CFBundleName |-> [type |-> "string", value |-> <<>>]]]

InfoPlistPath(app) == app \o Slash \o ContentsName \o Slash \o InfoPlistName

EntryKinds == {
    \* <name>.app/Contents/Info.plist
    [kind |-> "infoplist", name |-> InfoPlistPath(AppA), mode |-> 420, body |-> PlistOf(IdA)],
    [kind |-> "infoplist", name |-> InfoPlistPath(AppB), mode |-> 420, body |-> PlistOf(IdB)],
    [kind |-> "infoplist", name |-> InfoPlistPath(AppA), mode |-> 420, body |-> NotAPlist],
    [kind |-> "infoplist", name |-> InfoPlistPath(AppB), mode |-> 420, body |-> PlistNoKey],
    [kind |-> "infoplist", name |-> InfoPlistPath(AppA), mode |-> 420, body |-> PlistWrongType],
    \* the Info.plist of a bundle nested in another bundle
    [kind |-> "nested",
     name |-> AppA \o Slash \o ContentsName \o Slash \o <<"F">> \o Slash \o InfoPlistPath(AppB),
     mode |-> 420, body |-> PlistOf(IdN)],
    \* Contents/Info.plist under a directory that is no .app
    [kind |-> "other", name |-> InfoPlistPath(DirTxt), mode |-> 420, body |-> PlistOf(IdB)],
    \* the directory entry of a bundle
    [kind |-> "other", name |-> AppA \o Slash, mode |-> 493, body |-> NotAPlist],
    \* a file in a directory
    [kind |-> "other", name |-> BinName \o Slash \o ToolName, mode |-> 493, body |-> NotAPlist],
    \* a file at the root of the archive, executable or not
    [kind |-> "rootfile", name |-> ToolName, mode |-> 493, body |-> NotAPlist],
    [kind |-> "rootfile", name |-> ToolName, mode |-> 420, body |-> NotAPlist] }

RECURSIVE SeqsUpTo(_, _)
SeqsUpTo(S, n) ==
    IF n = 0 THEN {<<>>}
    ELSE LET shorter == SeqsUpTo(S, n - 1)
         IN  shorter \cup {Append(q, x) : q \in {r \in shorter : Len(r) = n - 1}, x \in S}

Archives == SeqsUpTo(EntryKinds, MaxEntries)

----------------------------------------------------------------------------
(* findPrimaryBundleID *)

\* IsPrimaryInfoPlist without the test of the depth: the last three parts
\* of the name are tested
IsInfoPlistAtAnyDepth(filename) ==
    LET parts == Split(filename, "/")
        n == Len(parts)
    IN  /\ n >= 3
        /\ Ext(parts[n - 2]) = <<".","a","p","p">>
        /\ parts[n - 1] = ContentsName
        /\ parts[n] = InfoPlistName

\* the test of the loop body: parts of the name are <x>.app, Contents, Info.plist
IsPrimaryInfoPlist(filename) ==
    LET parts == Split(filename, "/")
    IN  /\ Len(parts) = 3
        /\ Ext(parts[1]) = <<".","a","p","p">>
        /\ parts[2] = ContentsName
        /\ parts[3] = InfoPlistName

\* the body of the matching branch: open the entry, decode it, look the key up
ReadBundleID(entry) ==
    LET pl == New(entry.body)
    IN  IF pl.err # "" THEN [value |-> <<>>, err |-> pl.err]
        ELSE BundleIdentifier(pl.data)

\* AfterLoop without the case of the single file
AfterLoopNoFallback(n, lastName) ==
    [value |-> <<>>, err |-> "could not find Info.plist"]

\* the code after the loop
AfterLoop(n, lastName) ==
    IF n = 1 /\ IndexByte(lastName, "/") < 0
    THEN [value |-> <<"c","o","m",".","e","x","a","m","p","l","e",".">> \o lastName,
          err |-> ""]
    ELSE [value |-> <<>>, err |-> "could not find Info.plist"]

\* an external operation, as the trace records it
Event(op, arg) == [op |-> op, arg |-> arg]

\* zip.OpenReader and newZipPayloadReader
FindOpen ==
    /\ pc = "find_open"
    /\ pos' = -1
    /\ count' = 0
    /\ last' = <<>>
    /\ trace' = Append(trace, Event("openzip", <<>>))
    /\ pc' = "find_loop"
    /\ UNCHANGED <<otherVars, inputVars, fileVars, echo, reqUUID, opened, bundleID, findErr, submitVars, cmdErr,
                   pollVars, stapleVars, err>>

\* pr.Next() at the end of the archive: io.EOF, the loop breaks
FindEOF ==
    /\ pc = "find_loop"
    /\ pos + 1 >= Len(archive)
    /\ pos' = pos + 1
    /\ LET r == AfterLoop(count, last)
       IN  bundleID' = r.value /\ findErr' = r.err
    /\ pc' = "find_ret"
    /\ UNCHANGED <<otherVars, inputVars, fileVars, echo, reqUUID, count, last, opened, submitVars, cmdErr,
                   pollVars, stapleVars, trace, err>>

\* one round of the loop, on the next entry
FindEntry ==
    /\ pc = "find_loop"
    /\ pos + 1 < Len(archive)
    /\ pos' = pos + 1
    /\ LET entry == archive[pos + 2]
       IN  /\ last' = entry.name
           /\ count' = count + 1
           /\ IF IsPrimaryInfoPlist(entry.name)
              THEN /\ opened' = opened \cup {pos + 2}
                   /\ LET r == ReadBundleID(entry)
                      IN  bundleID' = r.value /\ findErr' = r.err
                   /\ pc' = "find_ret"
              ELSE /\ UNCHANGED <<opened, bundleID, findErr>>
                   /\ pc' = "find_loop"
    /\ UNCHANGED <<otherVars, inputVars, fileVars, echo, reqUUID, submitVars, cmdErr,
                   pollVars, stapleVars, trace, err>>

----------------------------------------------------------------------------
(* External commands.  cmd.Run returns no error (""), an *exec.ExitError   *)
(* for a command that ran and exited non-zero ("exit"), or another error   *)
(* ("start": the command could not be started, or its output not copied).  *)

CmdOutcomes == {"", "exit", "start"}

\* the text a writer captured from the lines a command wrote
RECURSIVE Render(_)
Render(lines) ==
    IF lines = <<>> THEN <<>>
    ELSE Head(lines).text \o <<"\n">> \o Render(Tail(lines))

----------------------------------------------------------------------------
(* The command lines of the external commands and their echo. *)

Space == <<" ">>
ArgXcrun == <<"x","c","r","u","n">>
ArgAltool == <<"a","l","t","o","o","l">>
ArgNotarizeApp == <<"-","-","n","o","t","a","r","i","z","e","-","a","p","p">>
ArgPrimaryBundleID == <<"-","-","p","r","i","m","a","r","y","-","b","u","n","d","l","e","-","i","d">>
ArgUsername == <<"-","-","u","s","e","r","n","a","m","e">>
ArgPassword == <<"-","-","p","a","s","s","w","o","r","d">>
ArgFile == <<"-","-","f","i","l","e">>
ArgVerbose == <<"-","-","v","e","r","b","o","s","e">>
ArgNotarizationInfo == <<"-","-","n","o","t","a","r","i","z","a","t","i","o","n","-","i","n","f","o">>
ArgUnzip == <<"u","n","z","i","p">>
ArgStapler == <<"s","t","a","p","l","e","r">>
ArgStaple == <<"s","t","a","p","l","e">>
ArgZip == <<"z","i","p">>
DotZip == <<".","z","i","p">>
DotApp == <<".","a","p","p">>

\* strings.Repeat
RECURSIVE Repeat(_, _)
Repeat(s, n) == IF n = 0 THEN <<>> ELSE s \o Repeat(s, n - 1)

\* strings.Join
RECURSIVE Join(_, _)
Join(values, sep) ==
    IF values = <<>> THEN <<>>
    ELSE IF Len(values) = 1 THEN values[1]
    ELSE values[1] \o sep \o Join(Tail(values), sep)

\* the loop of commandDebugString: an argument is replaced when
\* expectPassword is set, and no statement of the loop sets it
RECURSIVE DebugValues(_, _)
DebugValues(args, expectPassword) ==
    IF args = <<>> THEN <<>>
    ELSE IF expectPassword
    THEN <<Repeat(<<"X","x">>, 8) \o <<"X">>>> \o DebugValues(Tail(args), FALSE)
    ELSE <<Head(args)>> \o DebugValues(Tail(args), expectPassword)

commandDebugString(args) == Join(DebugValues(args, FALSE), Space)

\* submitForNotarization, lines 228-237
SubmitArgs(id, user, pw, payload, v) ==
    <<ArgXcrun, ArgAltool, ArgNotarizeApp, ArgPrimaryBundleID, id,
      ArgUsername, user, ArgPassword, pw, ArgFile, payload>>
    \o (IF v > 0 THEN <<ArgVerbose>> ELSE <<>>)

\* notarizationInfo, lines 257-263
InfoArgs(uuid, user, pw, v) ==
    <<ArgXcrun, ArgAltool, ArgNotarizationInfo, uuid,
      ArgUsername, user, ArgPassword, pw>>
    \o (IF v > 0 THEN <<ArgVerbose>> ELSE <<>>)

\* the working directory and filepath.Abs
Cwd == <<"/","w">>
Abs(p) == IF p # <<>> /\ Head(p) = "/" THEN p ELSE Cwd \o <<"/">> \o p

\* the directory ioutil.TempDir makes, and filepath.Join of two elements
TempDirName == <<"/","t","/","n">>
PathJoin(dir, name) ==
    IF dir = <<>> \/ dir = <<".">> THEN name ELSE dir \o <<"/">> \o name

\* filepath.Base and filepath.Dir of a clean path
RECURSIVE LastSlash(_)
LastSlash(p) ==
    IF p = <<>> THEN 0
    ELSE IF p[Len(p)] = "/" THEN Len(p)
    ELSE LastSlash(SubSeq(p, 1, Len(p) - 1))
Base(p) == SubSeq(p, LastSlash(p) + 1, Len(p))
Dir(p) ==
    IF LastSlash(p) = 0 THEN <<".">>
    ELSE IF LastSlash(p) = 1 THEN <<"/">>
    ELSE SubSeq(p, 1, LastSlash(p) - 1)

\* makeAppZip, lines 356-359: the name of the zip
ZipFileOf(appDir) ==
    LET basename == Base(appDir)
        ext == Ext(basename)
    IN  SubSeq(basename, 1, Len(basename) - Len(ext)) \o DotZip

\* makeAppZip, line 364
ZipArgs(appDir) ==
    <<ArgZip, <<"-","9">>, <<"-","y">>, <<"-","r">>, ZipFileOf(appDir), Base(appDir)>>

----------------------------------------------------------------------------
(* submitForNotarization *)

T0 == <<"9","f","-","0">>
T1 == <<"a","b","-","1">>
T2 == <<"c","d","-","2">>
T3 == <<"e","f","-","3">>

RequestUUIDLine(t) ==
    <<"R","e","q","u","e","s","t","U","U","I","D"," ","="," ">> \o t
UploadIDLine(t) ==
    <<"T","h","e"," ","u","p","l","o","a","d"," ","I","D"," ","i","s"," ">> \o t

\* The lines altool may write on a submission; `kind` and `token` say what
\* the line was built as and are not read by the program.
SubmitLines == {
    [kind |-> "primary", token |-> T1, text |-> RequestUUIDLine(T1)],
    [kind |-> "primary", token |-> T2, text |-> RequestUUIDLine(T2)],
    [kind |-> "alternate", token |-> T3, text |-> UploadIDLine(T3)],
    [kind |-> "noise", token |-> <<>>,
     text |-> <<"N","o"," ","e","r","r","o","r","s"," ","u","p","l","o","a","d","i","n","g">>],
    \* the primary label with no token after it
    [kind |-> "noise", token |-> <<>>, text |-> RequestUUIDLine(<<"(","n","u","l","l",")">>)] }

SubmitOutputs == SeqsUpTo(SubmitLines, MaxPieces)

\* FindTicket with the two patterns tried in the other order
FindTicketAltFirst(text) ==
    LET m == uuidAltRe(text)
    IN  IF m.found THEN [value |-> m.group, err |-> ""]
        ELSE LET alt == uuidRe(text)
             IN  IF alt.found THEN [value |-> alt.group, err |-> ""]
                 ELSE [value |-> <<>>,
                       err |-> "can't find RequestUUID in notarization response"]

\* lines 244-252: the ticket in the captured text
FindTicket(text) ==
    LET m == uuidRe(text)
    IN  IF m.found THEN [value |-> m.group, err |-> ""]
        ELSE LET alt == uuidAltRe(text)
             IN  IF alt.found THEN [value |-> alt.group, err |-> ""]
                 ELSE [value |-> <<>>,
                       err |-> "can't find RequestUUID in notarization response"]

\* SubmitResult with every error of the command returned, a non-zero exit too
SubmitResultAnyErrorFatal(runErr, text) ==
    IF runErr # ""
    THEN [value |-> <<>>, err |-> runErr]
    ELSE FindTicket(text)

\* lines 238-252: what submitForNotarization returns once the command has run
SubmitResult(runErr, text) ==
    IF runErr # "" /\ runErr # "exit"
    THEN [value |-> <<>>, err |-> runErr]
    ELSE FindTicket(text)

\* Start with the request's ticket not looked at: every run submits
StartAlwaysSubmits ==
    /\ pc = "start"
    /\ pc' = "find_open"
    /\ UNCHANGED <<otherVars, inputVars, fileVars, echo, reqUUID, findVars, submitVars, cmdErr, pollVars,
                   stapleVars, trace, err>>

\* notarizePayload, line 311: submit unless the request has a ticket
Start ==
    /\ pc = "start"
    /\ pc' = IF reqUUID = <<>> THEN "find_open" ELSE "poll_query"
    /\ UNCHANGED <<otherVars, inputVars, fileVars, echo, reqUUID, findVars, submitVars, cmdErr, pollVars,
                   stapleVars, trace, err>>

\* lines 222-225 and 312-315: findPrimaryBundleID failed
SubmitNoBundleID ==
    /\ pc = "find_ret"
    /\ findErr # ""
    /\ ticket' = <<>>
    /\ submitErr' = findErr
    /\ pc' = "submit_ret"
    /\ UNCHANGED <<otherVars, inputVars, fileVars, echo, reqUUID, findVars, buf, cmdErr, pollVars,
                   stapleVars, trace, err>>

\* lines 226-238: the submission command runs
SubmitRun ==
    /\ pc = "find_ret"
    /\ findErr = ""
    /\ \E outcome \in CmdOutcomes, out \in SubmitOutputs :
          /\ cmdErr' = outcome
          /\ buf' = out
    /\ trace' = Append(trace, Event("altool --notarize-app", bundleID))
    /\ echo' = commandDebugString(SubmitArgs(bundleID, username, password, appPath, verbose))
    /\ pc' = "submit_scan"
    /\ UNCHANGED <<otherVars, inputVars, fileVars, reqUUID, findVars, ticket, submitErr, pollVars,
                   stapleVars, err>>

\* lines 238-252: the error of the command and the captured output are examined
SubmitScan ==
    /\ pc = "submit_scan"
    /\ LET r == SubmitResult(cmdErr, Render(buf))
       IN  ticket' = r.value /\ submitErr' = r.err
    /\ pc' = "submit_ret"
    /\ UNCHANGED <<otherVars, inputVars, fileVars, echo, reqUUID, findVars, buf, cmdErr, pollVars,
                   stapleVars, trace, err>>

\* notarizePayload, lines 312-316: req.UUID, err = submitForNotarization(...)
SubmitReturn ==
    /\ pc = "submit_ret"
    /\ reqUUID' = ticket
    /\ buf' = <<>>
    /\ IF submitErr # ""
       THEN err' = submitErr /\ pc' = "done"
       ELSE err' = err /\ pc' = "poll_query"
    /\ UNCHANGED <<otherVars, inputVars, fileVars, echo, findVars, ticket, submitErr, cmdErr, pollVars,
                   stapleVars, trace>>

----------------------------------------------------------------------------
(* notarizationInfo and waitForNotarization *)

RetryInterval == 10

StatusLine(word) == <<"S","t","a","t","u","s",":"," ">> \o word
LogURL == <<"h","t","t","p",":","/","/","x","/","l","o","g">>

\* The lines altool may write on a status query; `kind` says what the line
\* was built as and is not read by the program.
InfoLines == {
    [kind |-> "success", text |-> StatusLine(<<"s","u","c","c","e","s","s">>)],
    [kind |-> "in progress",
     text |-> StatusLine(<<"i","n"," ","p","r","o","g","r","e","s","s">>)],
    [kind |-> "invalid", text |-> StatusLine(<<"i","n","v","a","l","i","d">>)],
    [kind |-> "unrecognized", text |-> StatusLine(<<"b","o","g","u","s">>)],
    [kind |-> "logurl",
     text |-> <<"L","o","g","F","i","l","e","U","R","L",":"," ">> \o LogURL],
    [kind |-> "noise",
     text |-> <<"S","t","a","t","u","s"," ","C","o","d","e",":"," ","0">>] }

InfoOutputs == SeqsUpTo(InfoLines, MaxPieces)

StatusKinds == {"success", "in progress", "invalid", "unrecognized"}

HasLogURL(lines) == \E i \in 1..Len(lines) : lines[i].kind = "logurl"

\* the status the service answered, as the lines were built: that of the first
\* status line, "none" when there is none, "failed" when the command failed
AnswerStatus(outcome, lines) ==
    LET at == {i \in 1..Len(lines) : lines[i].kind \in StatusKinds}
    IN  IF outcome # "" THEN "failed"
        ELSE IF at = {} THEN "none"
        ELSE lines[CHOOSE i \in at : \A j \in at : i <= j].kind

\* What the service answered to a query: the status, whether an invalid
\* answer came with a log URL line, and the error of the command.
Answer(outcome, lines) ==
    [status |-> AnswerStatus(outcome, lines),
     log |-> AnswerStatus(outcome, lines) = "invalid" /\ HasLogURL(lines),
     outcome |-> outcome]

InProgressAnswers(seq) ==
    Cardinality({i \in 1..Len(seq) : seq[i].status = "in progress"})

\* StatusCase with a default branch that does not return: an unrecognized
\* status is waited on like in progress
StatusCaseRetriesUnknown(word, log) ==
    IF word = <<"s","u","c","c","e","s","s">>
    THEN [next |-> "return", err |-> "", url |-> <<>>]
    ELSE IF word = <<"i","n","v","a","l","i","d">>
    THEN [next |-> IF log.found THEN "fetch" ELSE "return",
          err |-> "app notarization failed", url |-> log.group]
    ELSE [next |-> "sleep", err |-> "", url |-> <<>>]

\* lines 282-304: the switch on the status m[1]; log is the match of the log
\* URL in the same text.  next is "return", "sleep" or "fetch" (the log is
\* fetched, then the error returned).
StatusCase(word, log) ==
    IF word = <<"s","u","c","c","e","s","s">>
    THEN [next |-> "return", err |-> "", url |-> <<>>]
    ELSE IF word = <<"i","n"," ","p","r","o","g","r","e","s","s">>
    THEN [next |-> "sleep", err |-> "", url |-> <<>>]
    ELSE IF word = <<"i","n","v","a","l","i","d">>
    THEN [next |-> IF log.found THEN "fetch" ELSE "return",
          err |-> "app notarization failed", url |-> log.group]
    ELSE [next |-> "return", err |-> "unknown status", url |-> <<>>]

\* lines 275-304: one round of the loop after the status query returned
WaitRound(runErr, text) ==
    LET m == statusRe(text)
        c == StatusCase(m.group, logFileURLRe(text))
    IN  IF runErr # ""
        THEN [next |-> "return", err |-> runErr, status |-> <<>>, url |-> <<>>]
        ELSE IF ~m.found
        THEN [next |-> "return", err |-> "unexpect output format from altool",
              status |-> <<>>, url |-> <<>>]
        ELSE [next |-> c.next, err |-> c.err, status |-> m.group, url |-> c.url]

\* WaitRound for every outcome and output of the status query, computed once
WaitRoundOf ==
    [e \in CmdOutcomes, out \in InfoOutputs |-> WaitRound(e, Render(out))]

\* WaitReturned with the poller's error dropped: stapling follows every poll
WaitReturnedIgnoringError(e) ==
    pc' = "staple_tempdir" /\ err' = err

\* notarizePayload, lines 318-321: the poller returned e
WaitReturned(e) ==
    IF e # ""
    THEN pc' = "done" /\ err' = e
    ELSE pc' = "staple_tempdir" /\ err' = err

\* line 274 and notarizationInfo: the status query runs, and its output is
\* returned when the command did not fail.  The service answers in progress at
\* most MaxInProgress times in a run.
PollQuery ==
    /\ pc = "poll_query"
    /\ Len(answers) <= MaxInProgress
    /\ \E outcome \in CmdOutcomes, out \in InfoOutputs :
          /\ Answer(outcome, out).status = "in progress" =>
                InProgressAnswers(answers) < MaxInProgress
          /\ cmdErr' = outcome
          /\ info' = IF outcome = "" THEN out ELSE <<>>
          /\ answers' = Append(answers, Answer(outcome, out))
    /\ trace' = Append(trace, Event("altool --notarization-info", reqUUID))
    /\ echo' = commandDebugString(InfoArgs(reqUUID, username, password, verbose))
    /\ pc' = "poll_round"
    /\ UNCHANGED <<otherVars, inputVars, fileVars, reqUUID, findVars, submitVars, status, logFetch, waitErr,
                   stapleVars, err>>

\* lines 275-304, and notarizePayload lines 318-320 when the poller returns
PollRound ==
    /\ pc = "poll_round"
    /\ LET r == WaitRoundOf[cmdErr, info]
       IN  /\ status' = r.status
           /\ CASE r.next = "sleep" ->
                     pc' = "poll_sleep" /\ UNCHANGED <<waitErr, err>>
                [] r.next = "fetch" ->
                     pc' = "poll_fetch" /\ UNCHANGED <<waitErr, err>>
                [] OTHER ->
                     waitErr' = r.err /\ WaitReturned(r.err)
           /\ info' = IF r.next = "fetch" THEN info ELSE <<>>
    /\ cmdErr' = ""
    /\ UNCHANGED <<otherVars, inputVars, fileVars, echo, reqUUID, findVars, submitVars, answers, logFetch,
                   stapleVars, trace>>

\* PollFetchLog with the error of a failed fetch returned in place of the
\* notarization error
PollFetchLogFatal ==
    /\ pc = "poll_fetch"
    /\ \E fetched \in BOOLEAN :
          /\ logFetch' = IF fetched THEN "fetched" ELSE "failed"
          /\ waitErr' = IF fetched THEN "app notarization failed" ELSE "error reading log"
          /\ err' = IF fetched THEN "app notarization failed" ELSE "error reading log"
    /\ trace' = Append(trace, Event("http.Get", WaitRoundOf[cmdErr, info].url))
    /\ info' = <<>>
    /\ pc' = "done"
    /\ UNCHANGED <<otherVars, inputVars, fileVars, echo, reqUUID, findVars, submitVars, cmdErr, status, answers,
                   stapleVars>>

\* lines 290-301: the log is fetched, with or without success, and the error returned
PollFetchLog ==
    /\ pc = "poll_fetch"
    /\ \E fetched \in BOOLEAN :
          logFetch' = IF fetched THEN "fetched" ELSE "failed"
    /\ trace' = Append(trace, Event("http.Get", WaitRoundOf[cmdErr, info].url))
    /\ info' = <<>>
    /\ waitErr' = "app notarization failed"
    /\ WaitReturned("app notarization failed")
    /\ UNCHANGED <<otherVars, inputVars, fileVars, echo, reqUUID, findVars, submitVars, cmdErr, status, answers,
                   stapleVars>>

\* PollSleep without the sleep: the next query follows at once
PollNoSleep ==
    /\ pc = "poll_sleep"
    /\ pc' = "poll_query"
    /\ UNCHANGED <<otherVars, inputVars, fileVars, echo, reqUUID, findVars, submitVars, cmdErr, pollVars,
                   stapleVars, trace, err>>

\* PollSleep with a retry ceiling: the poller gives up at the second sleep
PollSleepWithCeiling ==
    /\ pc = "poll_sleep"
    /\ IF \E i \in 1..Len(trace) : trace[i].op = "sleep"
       THEN /\ pc' = "done"
            /\ waitErr' = "timed out"
            /\ err' = "timed out"
            /\ trace' = trace
       ELSE /\ pc' = "poll_query"
            /\ trace' = Append(trace, Event("sleep", <<RetryInterval>>))
            /\ UNCHANGED <<waitErr, err>>
    /\ UNCHANGED <<otherVars, inputVars, fileVars, echo, reqUUID, findVars, submitVars, cmdErr, info, status,
                   answers, logFetch, stapleVars>>

\* line 305
PollSleep ==
    /\ pc = "poll_sleep"
    /\ trace' = Append(trace, Event("sleep", <<RetryInterval>>))
    /\ pc' = "poll_query"
    /\ UNCHANGED <<otherVars, inputVars, fileVars, echo, reqUUID, findVars, submitVars, cmdErr, pollVars,
                   stapleVars, err>>

----------------------------------------------------------------------------
(* stapleAndVerify, unzipPayload, verifySignature and makeAppZip *)

\* the characters of the model in byte order
ByteOrder ==
    <<"\n", " ", "(", ")", ",", "-", ".", "/">> \o
    <<"0","1","2","3","4","5","6","7","8","9">> \o <<":", "=">> \o
    <<"A","B","C","D","E","F","G","H","I","J","K","L","M",
      "N","O","P","Q","R","S","T","U","V","W","X","Y","Z">> \o <<"_">> \o
    <<"a","b","c","d","e","f","g","h","i","j","k","l","m",
      "n","o","p","q","r","s","t","u","v","w","x","y","z">>
Byte(c) == CHOOSE i \in 1..Len(ByteOrder) : ByteOrder[i] = c

\* a < b as Go compares strings
RECURSIVE StringLess(_, _)
StringLess(a, b) ==
    IF b = <<>> THEN FALSE
    ELSE IF a = <<>> THEN TRUE
    ELSE IF Head(a) # Head(b) THEN Byte(Head(a)) < Byte(Head(b))
    ELSE StringLess(Tail(a), Tail(b))

\* isExecutable: info.Mode()&0111 != 0, the mode as a number
isExecutable(mode) ==
    \/ mode % 2 = 1
    \/ (mode \div 8) % 2 = 1
    \/ (mode \div 64) % 2 = 1

\* What unzip leaves in the output directory: for each first path element of
\* the entries, a directory when an entry lies below it, a file otherwise (of
\* two entries of one name the later is kept).
Extracted(entries) ==
    LET first(i) == Split(entries[i].name, "/")[1]
        names == {first(i) : i \in 1..Len(entries)}
        below(n) == {i \in 1..Len(entries) :
                        first(i) = n /\ Len(Split(entries[i].name, "/")) > 1}
        file(n) == CHOOSE i \in 1..Len(entries) :
                      first(i) = n /\ \A j \in 1..Len(entries) : first(j) = n => j <= i
    IN  {[name |-> n,
          isDir |-> below(n) # {},
          mode |-> IF below(n) # {} THEN 493 ELSE entries[file(n)].mode] : n \in names}

\* ioutil.ReadDir: the entries of the directory, sorted by name
RECURSIVE ReadDir(_)
ReadDir(items) ==
    IF items = {} THEN <<>>
    ELSE LET x == CHOOSE x \in items : \A y \in items : ~StringLess(y.name, x.name)
         IN  <<x>> \o ReadDir(items \ {x})

\* unzipPayload, lines 335-352: the payload among the extracted entries
FindPayload(entries) ==
    LET apps == {i \in 1..Len(entries) :
                    Ext(entries[i].name) = <<".","a","p","p">> /\ entries[i].isDir}
    IN  IF apps # {}
        THEN [path |-> entries[CHOOSE i \in apps : \A j \in apps : i <= j].name,
              canStaple |-> TRUE, err |-> ""]
        ELSE IF /\ Len(entries) = 1
                /\ Ext(entries[1].name) = <<>>
                /\ isExecutable(entries[1].mode)
        THEN [path |-> entries[1].name, canStaple |-> FALSE, err |-> ""]
        ELSE [path |-> <<>>, canStaple |-> FALSE,
              err |-> "couldn't find any .app directories"]

\* StapleReturn with the directory removed at the end of the function, not by
\* a deferred call: a return with an error leaves it
StapleReturnKeepsDirOnError(e) ==
    /\ stapleDir' = IF e = "" THEN "removed" ELSE stapleDir
    /\ err' = e
    /\ pc' = "done"

\* stapleAndVerify returns: the deferred os.RemoveAll(dir) runs
StapleReturn(e) ==
    /\ stapleDir' = "removed"
    /\ err' = e
    /\ pc' = "done"

\* lines 134-138: ioutil.TempDir
StapleTempDir ==
    /\ pc = "staple_tempdir"
    /\ \E made \in BOOLEAN :
          IF made
          THEN /\ stapleDir' = "exists"
               /\ trace' = Append(trace, Event("TempDir", <<>>))
               /\ pc' = "staple_unzip"
               /\ err' = err
          ELSE /\ stapleDir' = stapleDir
               /\ trace' = trace
               /\ pc' = "done"
               /\ err' = "cannot create temporary directory"
    /\ UNCHANGED <<otherVars, inputVars, fileVars, echo, reqUUID, findVars, submitVars, cmdErr, pollVars,
                   unzipped, zipAtPath>>

\* line 139 and unzipPayload
StapleUnzip ==
    /\ pc = "staple_unzip"
    /\ trace' = Append(trace, Event("unzip", <<>>))
    /\ echo' = commandDebugString(<<ArgUnzip, Abs(appPath)>>)
    /\ \E outcome \in CmdOutcomes :
          LET r == FindPayload(ReadDir(Extracted(archive)))
          IN  /\ cmdErr' = outcome
              /\ IF outcome # "" \/ r.err # ""
                 THEN /\ StapleReturn(IF outcome # "" THEN outcome ELSE r.err)
                      /\ unzipped' = unzipped
                 ELSE /\ unzipped' = [path |-> r.path, canStaple |-> r.canStaple]
                      /\ pc' = IF r.canStaple THEN "staple_staple" ELSE "staple_verify"
                      /\ UNCHANGED <<stapleDir, err>>
    /\ UNCHANGED <<otherVars, inputVars, fileVars, reqUUID, findVars, submitVars, pollVars, zipAtPath>>

\* lines 144-148: xcrun stapler staple
StapleStaple ==
    /\ pc = "staple_staple"
    /\ trace' = Append(trace, Event("xcrun stapler staple", unzipped.path))
    /\ echo' = commandDebugString(<<ArgXcrun, ArgStapler, ArgStaple, PathJoin(TempDirName, unzipped.path)>>)
    /\ \E outcome \in CmdOutcomes :
          /\ cmdErr' = outcome
          /\ IF outcome # ""
             THEN StapleReturn(outcome)
             ELSE pc' = "staple_verify" /\ UNCHANGED <<stapleDir, err>>
    /\ UNCHANGED <<otherVars, inputVars, fileVars, reqUUID, findVars, submitVars, pollVars,
                   unzipped, zipAtPath>>

\* StapleVerify with the error of verifySignature dropped
StapleVerifyIgnoresFailure ==
    /\ pc = "staple_verify"
    /\ trace' = IF dryRun THEN trace
                ELSE Append(trace, Event("spctl --assess", unzipped.path))
    /\ \E outcome \in CmdOutcomes :
          /\ dryRun => outcome = ""
          /\ cmdErr' = outcome
          /\ IF unzipped.canStaple
             THEN pc' = "staple_zip" /\ UNCHANGED <<stapleDir, err>>
             ELSE StapleReturn("")
    /\ UNCHANGED <<otherVars, inputVars, fileVars, echo, reqUUID, findVars, submitVars, pollVars,
                   unzipped, zipAtPath>>

\* lines 150-152 and verifySignature: spctl --assess, only printed in a dry run
StapleVerify ==
    /\ pc = "staple_verify"
    /\ trace' = IF dryRun THEN trace
                ELSE Append(trace, Event("spctl --assess", unzipped.path))
    /\ \E outcome \in CmdOutcomes :
          /\ dryRun => outcome = ""
          /\ cmdErr' = outcome
          /\ IF outcome # ""
             THEN StapleReturn(outcome)
             ELSE IF unzipped.canStaple
             THEN pc' = "staple_zip" /\ UNCHANGED <<stapleDir, err>>
             ELSE StapleReturn("")
    /\ UNCHANGED <<otherVars, inputVars, fileVars, echo, reqUUID, findVars, submitVars, pollVars,
                   unzipped, zipAtPath>>

\* lines 155-158 and makeAppZip: zip -9 -y -r
StapleZip ==
    /\ pc = "staple_zip"
    /\ trace' = Append(trace, Event("zip", unzipped.path))
    /\ echo' = commandDebugString(ZipArgs(PathJoin(TempDirName, unzipped.path)))
    /\ \E outcome \in CmdOutcomes :
          /\ cmdErr' = outcome
          /\ IF outcome # ""
             THEN StapleReturn(outcome)
             ELSE pc' = "staple_rename" /\ UNCHANGED <<stapleDir, err>>
    /\ UNCHANGED <<otherVars, inputVars, fileVars, reqUUID, findVars, submitVars, pollVars,
                   unzipped, zipAtPath>>

\* lines 160-164: os.Rename(newZipPath, zipFile)
StapleRename ==
    /\ pc = "staple_rename"
    /\ trace' = Append(trace, Event("rename", unzipped.path))
    /\ \E renamed \in BOOLEAN :
          IF renamed
          THEN zipAtPath' = "stapled" /\ StapleReturn("")
          ELSE zipAtPath' = zipAtPath /\ StapleReturn("rename failed")
    /\ UNCHANGED <<otherVars, inputVars, fileVars, echo, reqUUID, findVars, submitVars, cmdErr, pollVars, unzipped>>

----------------------------------------------------------------------------
(* The runs of notarizePayload. *)

\* the payloads of the runs: the archives of at most one entry
Payloads == {a \in Archives : Len(a) <= 1}

Fresh ==
    /\ reqUUID = supplied
    /\ dryRun \in BOOLEAN
    /\ pos = -1
    /\ count = 0
    /\ last = <<>>
    /\ opened = {}
    /\ bundleID = <<>>
    /\ findErr = ""
    /\ buf = <<>>
    /\ cmdErr = ""
    /\ ticket = <<>>
    /\ submitErr = ""
    /\ info = <<>>
    /\ status = <<>>
    /\ answers = <<>>
    /\ logFetch = "none"
    /\ waitErr = ""
    /\ stapleDir = "none"
    /\ unzipped = [path |-> <<>>, canStaple |-> FALSE]
    /\ zipAtPath = "original"
    /\ trace = <<>>
    /\ err = ""
    /\ echo = <<>>

ZipA == <<"A",".","z","i","p">>
ToolZip == <<"t","o","o","l",".","z","i","p">>
DmgA == <<"A",".","d","m","g">>
UserName == <<"u","s","e","r">>
Secret == <<"s","3","c","r","e","t">>

\* the paths of the working directory
Paths == {AppA, ToolName, ZipA, ToolZip, DmgA}

\* notarizePayload for the zip archive at A.zip
ZipRequest ==
    /\ username = UserName
    /\ password = Secret
    /\ verbose = 0
    /\ artifact = ZipA
    /\ appPath = ZipA
    /\ files = [p \in Paths |-> IF p = ZipA THEN "zip" ELSE "absent"]

\* the other commands of the tool do not run
SignIdle ==
    /\ tree = {}
    /\ stack = <<>>
    /\ signed = <<>>

ZipIdle ==
    /\ Output = <<>>
    /\ Delete = FALSE
    /\ Force = FALSE
    /\ IncludeMacOSSuffix = TRUE
    /\ infoPlist = NotAPlist
    /\ output = <<>>
    /\ outputFile = "absent"
    /\ appBundle = "present"

FixIdle ==
    /\ fs0 = <<>>
    /\ fs = <<>>
    /\ frameworks = <<>>
    /\ work = <<>>

OthersIdle == SignIdle /\ ZipIdle /\ FixIdle

\* notarizePayload is called with a request, with or without a ticket
Init ==
    /\ pc = "start"
    /\ supplied \in {<<>>, T0}
    /\ archive \in Payloads
    /\ ZipRequest
    /\ OthersIdle
    /\ Fresh

Next ==
    \/ Start
    \/ FindOpen
    \/ FindEntry
    \/ FindEOF
    \/ SubmitNoBundleID
    \/ SubmitRun
    \/ SubmitScan
    \/ SubmitReturn
    \/ PollQuery
    \/ PollRound
    \/ PollFetchLog
    \/ PollSleep
    \/ StapleTempDir
    \/ StapleUnzip
    \/ StapleStaple
    \/ StapleVerify
    \/ StapleZip
    \/ StapleRename

Spec == Init /\ [][Next]_vars

\* findPrimaryBundleID alone, on every archive of the model
InitFind ==
    /\ pc = "find_open"
    /\ supplied = <<>>
    /\ archive \in Archives
    /\ ZipRequest
    /\ OthersIdle
    /\ Fresh

NextFind == FindOpen \/ FindEntry \/ FindEOF

SpecFind == InitFind /\ [][NextFind]_vars

\* the positions inside waitForNotarization
PollPcs == {"poll_query", "poll_round", "poll_fetch", "poll_sleep"}

\* waitForNotarization alone, for a ticket; the program runs on while it can

InitWait ==
    /\ pc = "poll_query"
    /\ supplied = T0
    /\ archive \in Payloads
    /\ ZipRequest
    /\ OthersIdle
    /\ Fresh

NextWait == PollQuery \/ PollRound \/ PollFetchLog \/ PollSleep

SpecWait == InitWait /\ [][NextWait]_vars /\ WF_vars(NextWait)

----------------------------------------------------------------------------
(* notarizeFile: the checks of the request and the zip of an app bundle. *)

pipelineVars == <<reqUUID, findVars, submitVars, cmdErr, pollVars, stapleVars>>

\* what `zip -9 -y -r` writes for the directory or file at a path: the entry
\* of the directory and the Info.plist of the bundle, or the file alone
ZipOf(kind) ==
    IF kind = "dir"
    THEN <<[kind |-> "other", name |-> AppA \o Slash, mode |-> 493, body |-> NotAPlist],
           [kind |-> "infoplist", name |-> InfoPlistPath(AppA), mode |-> 420,
            body |-> PlistOf(IdA)]>>
    ELSE <<[kind |-> "rootfile", name |-> ToolName, mode |-> 493, body |-> NotAPlist]>>

\* notarizeFile with every extension passed on to notarizePayload
NotarizeFileAnyExtension ==
    /\ pc = "notarize_file"
    /\ IF username = <<>>
       THEN /\ err' = "missing username"
            /\ pc' = "done"
            /\ password' = password
       ELSE \E typed \in {Secret}, read \in BOOLEAN :
               /\ password # <<>> => read
               /\ IF ~read
                  THEN /\ err' = "cannot read password"
                       /\ pc' = "done"
                       /\ password' = password
                  ELSE /\ password' = IF password = <<>> THEN typed ELSE password
                       /\ err' = err
                       /\ pc' = IF Ext(appPath) \in {DotApp, <<>>} THEN "make_zip" ELSE "start"
    /\ UNCHANGED <<otherVars, supplied, archive, dryRun, username, verbose, artifact, fileVars,
                   echo, pipelineVars, trace>>

\* notarizeFile, lines 371-395, but for the call of makeAppZip
NotarizeFile ==
    /\ pc = "notarize_file"
    /\ IF username = <<>>
       THEN /\ err' = "missing username"
            /\ pc' = "done"
            /\ password' = password
       ELSE \E typed \in {Secret}, read \in BOOLEAN :
               /\ password # <<>> => read
               /\ IF ~read
                  THEN /\ err' = "cannot read password"
                       /\ pc' = "done"
                       /\ password' = password
                  ELSE /\ password' = IF password = <<>> THEN typed ELSE password
                       /\ IF Ext(appPath) = DotZip
                          THEN err' = err /\ pc' = "start"
                          ELSE IF Ext(appPath) \in {DotApp, <<>>}
                          THEN err' = err /\ pc' = "make_zip"
                          ELSE err' = "can't notarize app in this format" /\ pc' = "done"
    /\ UNCHANGED <<otherVars, supplied, archive, dryRun, username, verbose, artifact, fileVars,
                   echo, pipelineVars, trace>>

\* MakeAppZip with req.AppPath left as it was
MakeAppZipKeepsPath ==
    /\ pc = "make_zip"
    /\ trace' = Append(trace, Event("zip", appPath))
    /\ echo' = commandDebugString(ZipArgs(appPath))
    /\ \E outcome \in CmdOutcomes :
          /\ files[appPath] = "absent" => outcome # ""
          /\ cmdErr' = outcome
          /\ IF outcome # ""
             THEN /\ err' = outcome
                  /\ pc' = "done"
                  /\ UNCHANGED <<archive, appPath, files>>
             ELSE LET zip == PathJoin(Dir(appPath), ZipFileOf(appPath))
                  IN  /\ appPath' = appPath
                      /\ files' = [files EXCEPT ![zip] = "zip"]
                      /\ archive' = ZipOf(files[appPath])
                      /\ err' = err
                      /\ pc' = "start"
    /\ UNCHANGED <<otherVars, supplied, dryRun, username, password, verbose, artifact,
                   reqUUID, findVars, submitVars, pollVars, stapleVars>>

\* notarizeFile, lines 387-392, and makeAppZip: the bundle is compressed to
\* <name>.zip next to it, which becomes req.AppPath
MakeAppZip ==
    /\ pc = "make_zip"
    /\ trace' = Append(trace, Event("zip", appPath))
    /\ echo' = commandDebugString(ZipArgs(appPath))
    /\ \E outcome \in CmdOutcomes :
          /\ files[appPath] = "absent" => outcome # ""
          /\ cmdErr' = outcome
          /\ IF outcome # ""
             THEN /\ err' = outcome
                  /\ pc' = "done"
                  /\ UNCHANGED <<archive, appPath, files>>
             ELSE LET zip == PathJoin(Dir(appPath), ZipFileOf(appPath))
                  IN  /\ appPath' = zip
                      /\ files' = [files EXCEPT ![zip] = "zip"]
                      /\ archive' = ZipOf(files[appPath])
                      /\ err' = err
                      /\ pc' = "start"
    /\ UNCHANGED <<otherVars, supplied, dryRun, username, password, verbose, artifact,
                   reqUUID, findVars, submitVars, pollVars, stapleVars>>

\* what lies at the path of a request: a zip, a bundle, an executable
KindAt(path) ==
    IF Ext(path) = DotZip THEN "zip"
    ELSE IF Ext(path) = DotApp THEN "dir"
    ELSE IF Ext(path) = <<>> THEN "exe"
    ELSE "file"

\* notarizeFile is called with a request
InitFile ==
    /\ pc = "notarize_file"
    /\ supplied \in {<<>>, T0}
    /\ username \in {<<>>, UserName}
    /\ password \in {<<>>, Secret}
    /\ verbose \in {0, 1}
    /\ artifact \in {ZipA, AppA, ToolName, DmgA}
    /\ appPath = artifact
    /\ \E present \in BOOLEAN :
          /\ artifact = ZipA => present
          /\ files = [p \in Paths |->
                        IF p = artifact /\ present THEN KindAt(p) ELSE "absent"]
    /\ archive \in (IF artifact = ZipA
                     THEN {ZipOf("dir"), ZipOf("exe"), SubSeq(ZipOf("dir"), 1, 1)}
                     ELSE {<<>>})
    /\ OthersIdle
    /\ Fresh

NextFile == NotarizeFile \/ MakeAppZip \/ Next

SpecFile == InitFile /\ [][NextFile]_vars

----------------------------------------------------------------------------
(* The sign command (src/sign.go): signPath, signApp and signEntry.        *)
(* A path is the sequence of its elements; a tree is the set of its paths. *)

\* the most entries of a tree, the root included
MaxTreeNodes == 4

DistName == <<"d","i","s","t">>
XpcB == <<"B",".","x","p","c">>
HelpersName == <<"H","e","l","p","e","r","s">>
DylibX == <<"x",".","d","y","l","i","b">>
ReadmeName == <<"r","e","a","d","m","e">>
HName == <<"h">>
RunName == <<"r","u","n">>
FrameworkC == <<"C",".","f","r","a","m","e","w","o","r","k">>
DotFramework == <<".","f","r","a","m","e","w","o","r","k">>
DotXpc == <<".","x","p","c">>
DotDylib == <<".","d","y","l","i","b">>

\* The entries a tree is built of: what os.Stat tells of an entry of that
\* name, and `label`, what the entry was made as, which the program does not read.
NodeOf(name) ==
    CASE name = AppA -> [isDir |-> TRUE, mode |-> 493, label |-> "bundle"]
      [] name = XpcB -> [isDir |-> TRUE, mode |-> 493, label |-> "bundle"]
      [] name = FrameworkC -> [isDir |-> TRUE, mode |-> 493, label |-> "bundle"]
      [] name = DistName -> [isDir |-> TRUE, mode |-> 493, label |-> "directory"]
      [] name = HelpersName -> [isDir |-> TRUE, mode |-> 493, label |-> "directory"]
      [] name = DylibX -> [isDir |-> FALSE, mode |-> 420, label |-> "dylib"]
      [] name = ToolName -> [isDir |-> FALSE, mode |-> 493, label |-> "executable"]
      [] name = RunName -> [isDir |-> FALSE, mode |-> 493, label |-> "executable"]
      [] name = ReadmeName -> [isDir |-> FALSE, mode |-> 420, label |-> "file"]
      [] name = HName -> [isDir |-> FALSE, mode |-> 420, label |-> "file"]

RootNames == {AppA, DistName, DylibX}
FirstNames == {XpcB, HelpersName, DylibX, ToolName, ReadmeName}
SecondNames == {HName, RunName, FrameworkC}

AllPaths ==
    {<<r>> : r \in RootNames}
    \cup {<<r, a>> : r \in {AppA, DistName}, a \in FirstNames}
    \cup {<<r, a, b>> : r \in {AppA, DistName}, a \in {XpcB, HelpersName}, b \in SecondNames}

LastOf(p) == p[Len(p)]
Parent(p) == SubSeq(p, 1, Len(p) - 1)

\* the trees of the model: one root, and every entry has its directory
Trees ==
    UNION {{{<<r>>} \cup S :
               S \in {S \in SUBSET {p \in AllPaths : Len(p) > 1 /\ p[1] = r} :
                         /\ Cardinality(S) < MaxTreeNodes
                         /\ \A p \in S : Len(p) > 2 => Parent(p) \in S}} :
           r \in RootNames}

\* the argument of the command
RootOf(T) == CHOOSE p \in T : Len(p) = 1

\* ioutil.ReadDir(p): the entries of the directory, sorted by name
Entries(T, p) ==
    LET below == {q \in T : Len(q) = Len(p) + 1 /\ Parent(q) = p}
        sorted == ReadDir({[name |-> LastOf(q)] : q \in below})
    IN  [i \in 1..Len(sorted) |-> Append(p, sorted[i].name)]

\* strings.ToLower
UpperSeq ==
    <<"A","B","C","D","E","F","G","H","I","J","K","L","M",
      "N","O","P","Q","R","S","T","U","V","W","X","Y","Z">>
LowerSeq ==
    <<"a","b","c","d","e","f","g","h","i","j","k","l","m",
      "n","o","p","q","r","s","t","u","v","w","x","y","z">>
ToLower(s) ==
    [i \in 1..Len(s) |->
        IF s[i] \in Upper
        THEN LowerSeq[CHOOSE k \in 1..26 : UpperSeq[k] = s[i]]
        ELSE s[i]]

\* signPath, lines 53-69: shouldSign
shouldSign(p) ==
    LET st == NodeOf(LastOf(p))
        ext == Ext(LastOf(p))
    IN  IF st.isDir
        THEN ext = DotApp \/ ext = DotFramework \/ ext = DotXpc
        ELSE \/ ext = DotDylib
             \/ (Len(p) > 1 /\ LastOf(Parent(p)) = HelpersName)
             \/ isExecutable(st.mode)

\* a call of signPath(root, p): the entries of p not visited yet
Frame(T, p) ==
    [path |-> p, rest |-> IF NodeOf(LastOf(p)).isDir THEN Entries(T, p) ELSE <<>>]

Top == stack[Len(stack)]
Pop == SubSeq(stack, 1, Len(stack) - 1)

\* the path as the command line has it
PathString(p) == Join(p, Slash)

\* the variables the sign command leaves alone
notarizeState == <<inputVars, fileVars, echo, reqUUID, findVars, submitVars, pollVars, stapleVars>>
exceptSign == <<notarizeState, zipVars, fixVars>>

\* signApp, lines 80-83: signPath(p, p) is called
SignApp ==
    /\ pc = "sign_app"
    /\ \E statOk \in BOOLEAN :
          IF statOk
          THEN /\ stack' = <<Frame(tree, RootOf(tree))>>
               /\ pc' = "sign_path"
               /\ err' = err
          ELSE /\ stack' = stack
               /\ pc' = "done"
               /\ err' = "stat failed"
    /\ UNCHANGED <<exceptSign, tree, signed, trace, cmdErr>>

\* signPath, lines 62-66: signPath is called for the next entry of the directory
SignDescend ==
    /\ pc = "sign_path"
    /\ Top.rest # <<>>
    /\ \E statOk \in BOOLEAN :
          IF statOk
          THEN /\ stack' = Append([stack EXCEPT ![Len(stack)].rest = Tail(Top.rest)],
                                  Frame(tree, Head(Top.rest)))
               /\ pc' = pc
               /\ err' = err
          ELSE /\ stack' = stack
               /\ pc' = "done"
               /\ err' = "stat failed"
    /\ UNCHANGED <<exceptSign, tree, signed, trace, cmdErr>>

\* SignReturn with the error of signEntry dropped: the callers go on
SignReturnIgnoresFailure ==
    /\ pc = "sign_path"
    /\ Top.rest = <<>>
    /\ IF shouldSign(Top.path)
       THEN /\ signed' = Append(signed, Top.path)
            /\ trace' = IF dryRun THEN trace
                        ELSE Append(trace, Event("codesign", PathString(Top.path)))
            /\ \E outcome \in CmdOutcomes :
                  /\ dryRun => outcome = ""
                  /\ cmdErr' = outcome
       ELSE UNCHANGED <<signed, trace, cmdErr>>
    /\ stack' = Pop
    /\ pc' = IF Len(stack) = 1 THEN "sign_verify" ELSE pc
    /\ err' = err
    /\ UNCHANGED <<exceptSign, tree>>

\* signPath, lines 70-73 and 63-65, and signEntry: the entries of p are done;
\* p is signed if it should be and the call returns to its caller, which
\* returns as well when it gets an error
SignReturn ==
    /\ pc = "sign_path"
    /\ Top.rest = <<>>
    /\ IF shouldSign(Top.path)
       THEN /\ signed' = Append(signed, Top.path)
            /\ trace' = IF dryRun THEN trace
                        ELSE Append(trace, Event("codesign", PathString(Top.path)))
            /\ \E outcome \in CmdOutcomes :
                  /\ dryRun => outcome = ""
                  /\ cmdErr' = outcome
                  /\ IF outcome # ""
                     THEN stack' = <<>> /\ pc' = "done" /\ err' = outcome
                     ELSE /\ stack' = Pop
                          /\ pc' = IF Len(stack) = 1 THEN "sign_verify" ELSE pc
                          /\ err' = err
       ELSE /\ stack' = Pop
            /\ pc' = IF Len(stack) = 1 THEN "sign_verify" ELSE pc
            /\ UNCHANGED <<signed, trace, cmdErr, err>>
    /\ UNCHANGED <<exceptSign, tree>>

\* signApp, lines 86-91, and verifySignature
SignVerify ==
    /\ pc = "sign_verify"
    /\ LET p == RootOf(tree)
           ext == ToLower(Ext(LastOf(p)))
       IN  IF ext = DotApp \/ ext = DotFramework
           THEN /\ trace' = IF dryRun THEN trace
                            ELSE Append(trace, Event("spctl --assess", PathString(p)))
                /\ \E outcome \in CmdOutcomes :
                      /\ dryRun => outcome = ""
                      /\ cmdErr' = outcome
                      /\ err' = outcome
           ELSE UNCHANGED <<trace, cmdErr, err>>
    /\ pc' = "done"
    /\ UNCHANGED <<exceptSign, signVars>>

\* the sign command is called for a tree
InitSign ==
    /\ pc = "sign_app"
    /\ supplied = <<>>
    /\ archive = <<>>
    /\ ZipRequest
    /\ Fresh
    /\ tree \in Trees
    /\ stack = <<>>
    /\ signed = <<>>
    /\ ZipIdle
    /\ FixIdle

NextSign == SignApp \/ SignDescend \/ SignReturn \/ SignVerify

SpecSign == InitSign /\ [][NextSign]_vars

----------------------------------------------------------------------------
(* The zip command (zipCmd): zipFile and outputFilename. *)

OutZip == <<"o","u","t",".","z","i","p">>
BundleNameA == <<"A">>
VersionA == <<"1",".","0">>
MacOSSuffix == <<"_","m","a","c","O","S">>

\* the Info.plist of a bundle with a name and a version, and one with no version
PlistNamed(name, version) ==
    [decodes |-> TRUE,
     data |-> [CFBundleName |-> [type |-> "string", value |-> name],
               CFBundleShortVersionString |-> [type |-> "string", value |-> version]]]

BundleName(data) == stringKey(data, "CFBundleName")
BundleShortVersionString(data) == stringKey(data, "CFBundleShortVersionString")

\* zipCmd.outputFilename
outputFilename(body, suffix) ==
    LET pl == New(body)
        name == BundleName(pl.data)
        version == BundleShortVersionString(pl.data)
    IN  IF pl.err # "" THEN [value |-> <<>>, err |-> pl.err]
        ELSE IF name.err # "" THEN [value |-> <<>>, err |-> name.err]
        ELSE IF version.err # "" THEN [value |-> <<>>, err |-> version.err]
        ELSE [value |-> name.value \o <<"_">> \o version.value
                        \o (IF suffix THEN MacOSSuffix ELSE <<>>) \o DotZip,
              err |-> ""]

\* zipFile, line 77
DittoArgs(app, out) ==
    <<<<"d","i","t","t","o">>, <<"-","c">>, <<"-","k">>,
      <<"-","-","n","o","r","s","r","c">>,
      <<"-","-","s","e","q","u","e","s","t","e","r","R","s","r","c">>,
      <<"-","-","k","e","e","p","P","a","r","e","n","t">>, app, out>>

exceptZip == <<inputVars, fileVars, reqUUID, findVars, submitVars, pollVars, stapleVars,
               signVars, fixVars>>
RmLine(path) == <<"r","m">> \o Space \o path
RmRecursiveLine(path) == <<"r","m">> \o Space \o <<"-","r">> \o Space \o path
zipFlags == <<Output, Delete, Force, IncludeMacOSSuffix, infoPlist>>

\* zipFile, lines 56-63: the output filename
ZipOutput ==
    /\ pc = "zip_output"
    /\ LET r == IF Output # <<>> THEN [value |-> Output, err |-> ""]
                ELSE outputFilename(infoPlist, IncludeMacOSSuffix)
       IN  /\ output' = r.value
           /\ err' = r.err
           /\ pc' = IF r.err # "" THEN "done" ELSE "zip_stat"
    /\ UNCHANGED <<exceptZip, zipFlags, outputFile, appBundle, trace, cmdErr, echo>>

\* zipFile, lines 64-76: an output that exists and is no directory
ZipStat ==
    /\ pc = "zip_stat"
    /\ IF outputFile \in {"old", "new"}
       THEN IF ~Force
            THEN /\ err' = "already exists"
                 /\ pc' = "done"
                 /\ UNCHANGED <<outputFile, trace, echo>>
            ELSE IF dryRun
            THEN /\ pc' = "zip_ditto"
                 /\ echo' = RmLine(output)
                 /\ UNCHANGED <<outputFile, trace, err>>
            ELSE /\ trace' = Append(trace, Event("remove", output))
                 /\ echo' = echo
                 /\ \E removed \in BOOLEAN :
                       IF removed
                       THEN outputFile' = "absent" /\ err' = err /\ pc' = "zip_ditto"
                       ELSE outputFile' = outputFile /\ err' = "error removing" /\ pc' = "done"
       ELSE /\ pc' = "zip_ditto"
            /\ UNCHANGED <<outputFile, trace, err, echo>>
    /\ UNCHANGED <<exceptZip, zipFlags, output, appBundle, cmdErr>>

\* ZipDitto with the error of the archiver dropped
ZipDittoIgnoresFailure ==
    /\ pc = "zip_ditto"
    /\ echo' = IF dryRun \/ verbose > 0
               THEN commandDebugString(DittoArgs(appPath, output)) ELSE echo
    /\ IF dryRun
       THEN UNCHANGED <<trace, cmdErr, outputFile>>
       ELSE /\ trace' = Append(trace, Event("ditto", output))
            /\ \E outcome \in CmdOutcomes :
                  /\ cmdErr' = outcome
                  /\ outputFile' = IF outcome # "" \/ outputFile = "dir"
                                   THEN outputFile ELSE "new"
    /\ pc' = "zip_delete"
    /\ err' = err
    /\ UNCHANGED <<exceptZip, zipFlags, output, appBundle>>

\* zipFile, lines 77-94: ditto -c -k ... appPath output
ZipDitto ==
    /\ pc = "zip_ditto"
    /\ echo' = IF dryRun \/ verbose > 0
               THEN commandDebugString(DittoArgs(appPath, output)) ELSE echo
    /\ IF dryRun
       THEN /\ pc' = "zip_delete"
            /\ UNCHANGED <<trace, cmdErr, outputFile, err>>
       ELSE /\ trace' = Append(trace, Event("ditto", output))
            /\ \E outcome \in CmdOutcomes :
                  /\ cmdErr' = outcome
                  /\ IF outcome # ""
                     THEN /\ err' = outcome
                          /\ pc' = "done"
                          /\ outputFile' = outputFile
                     ELSE /\ err' = err
                          /\ pc' = "zip_delete"
                          /\ outputFile' = IF outputFile = "dir" THEN "dir" ELSE "new"
    /\ UNCHANGED <<exceptZip, zipFlags, output, appBundle>>

\* zipFile, lines 95-105: the bundle is removed with -d
ZipDelete ==
    /\ pc = "zip_delete"
    /\ pc' = "done"
    /\ echo' = IF Delete /\ (dryRun \/ verbose > 0) THEN RmRecursiveLine(appPath) ELSE echo
    /\ IF Delete /\ ~dryRun
       THEN /\ trace' = Append(trace, Event("removeall", appPath))
            /\ \E removed \in BOOLEAN :
                  IF removed
                  THEN appBundle' = "removed" /\ err' = err
                  ELSE appBundle' = appBundle /\ err' = "cannot remove the bundle"
       ELSE UNCHANGED <<trace, appBundle, err>>
    /\ UNCHANGED <<exceptZip, zipFlags, output, outputFile, cmdErr>>

\* the request of the commands that take a bundle: A.app in the working directory
BundleRequest ==
    /\ supplied = <<>>
    /\ archive = <<>>
    /\ username = <<>>
    /\ password = <<>>
    /\ artifact = AppA
    /\ appPath = AppA
    /\ files = [p \in Paths |-> IF p = AppA THEN "dir" ELSE "absent"]

\* the zip command is called for A.app
InitZip ==
    /\ pc = "zip_output"
    /\ BundleRequest
    /\ verbose \in {0, 1}
    /\ Fresh
    /\ SignIdle
    /\ FixIdle
    /\ Output \in {<<>>, OutZip}
    /\ Delete \in BOOLEAN
    /\ Force \in BOOLEAN
    /\ IncludeMacOSSuffix \in BOOLEAN
    /\ infoPlist \in {PlistNamed(BundleNameA, VersionA), PlistNoKey, NotAPlist}
    /\ output = <<>>
    /\ outputFile \in {"absent", "old", "dir"}
    /\ appBundle = "present"

NextZip == ZipOutput \/ ZipStat \/ ZipDitto \/ ZipDelete

SpecZip == InitZip /\ [][NextZip]_vars

----------------------------------------------------------------------------
(* The fix command (fixCmd): fixApp, fixFramework, sealResource, and the   *)
(* helpers osRemove, osRename and symlink.                                 *)
(* The file system is a function from the paths that exist to their nodes; *)
(* `id` tells what a node was made as and is not read by the program.      *)

DSStore == <<".","D","S","_","S","t","o","r","e">>
VersionsName == <<"V","e","r","s","i","o","n","s">>
CurrentName == <<"C","u","r","r","e","n","t">>
VersionDirA == <<"A">>
ResourcesName == <<"R","e","s","o","u","r","c","e","s">>
HeadersName == <<"H","e","a","d","e","r","s">>
BodyC == <<"C">>

FwRoot == <<AppA, FrameworkC>>

FileNode(p) == <<p, [type |-> "file", target |-> <<>>, id |-> p]>>
DirNode(p) == <<p, [type |-> "dir", target |-> <<>>, id |-> p]>>
LinkNode(p, to) == <<p, [type |-> "symlink", target |-> to, id |-> p]>>

FsOf(S) == [p \in {e[1] : e \in S} |-> (CHOOSE e \in S : e[1] = p)[2]]

\* what a bundle may hold besides the framework directory
OptionalParts ==
    {{FileNode(<<AppA, DSStore>>)},
     {FileNode(Append(FwRoot, DSStore))},
     {FileNode(Append(FwRoot, BodyC))},
     {DirNode(Append(FwRoot, ResourcesName)), FileNode(FwRoot \o <<ResourcesName, HName>>)},
     {LinkNode(Append(FwRoot, HeadersName), FwRoot \o <<VersionsName, CurrentName, HeadersName>>)}}

\* the Versions directory of the framework: Current a directory, Current a
\* link to the version A, or no Versions at all
VersionsLayouts ==
    {{DirNode(Append(FwRoot, VersionsName)),
      DirNode(FwRoot \o <<VersionsName, CurrentName>>)},
     {DirNode(Append(FwRoot, VersionsName)),
      DirNode(FwRoot \o <<VersionsName, VersionDirA>>),
      LinkNode(FwRoot \o <<VersionsName, CurrentName>>, FwRoot \o <<VersionsName, VersionDirA>>)},
     {}}

Bundles ==
    {FsOf({DirNode(<<AppA>>), DirNode(FwRoot)} \cup (UNION parts) \cup versions) :
        parts \in SUBSET OptionalParts, versions \in VersionsLayouts}

\* the path with the symbolic links of its elements followed
RECURSIVE Real(_, _)
Real(f, p) ==
    IF p = <<>> THEN <<>>
    ELSE LET d == Append(Real(f, Parent(p)), LastOf(p))
         IN  IF d \in DOMAIN f /\ f[d].type = "symlink" THEN Real(f, f[d].target) ELSE d

IsUnder(p, dir) == Len(p) >= Len(dir) /\ SubSeq(p, 1, Len(dir)) = dir

\* the entries of a directory, sorted by name
DirEntries(f, p) ==
    LET below == {q \in DOMAIN f : Len(q) = Len(p) + 1 /\ Parent(q) = p}
        sorted == ReadDir({[name |-> LastOf(q)] : q \in below})
    IN  [i \in 1..Len(sorted) |-> Append(p, sorted[i].name)]

\* filepath.Walk: a directory, then its entries in lexical order; links are
\* not followed
RECURSIVE WalkOrder(_, _)
WalkOrder(f, p) ==
    IF f[p].type = "dir"
    THEN LET entries == DirEntries(f, p)
         IN  <<p>> \o Join([i \in 1..Len(entries) |-> WalkOrder(f, entries[i])], <<>>)
    ELSE <<p>>

\* os.Remove of a path that is there
Remove(f, p) == [q \in DOMAIN f \ {p} |-> f[q]]

\* os.Rename(source, dest): the entry and what is below it move to dest
Rename(f, source, dest) ==
    LET to == Append(Real(f, Parent(dest)), LastOf(dest))
        moved(q) == to \o SubSeq(q, Len(source) + 1, Len(q))
        stay == {q \in DOMAIN f : ~IsUnder(q, source) /\ ~IsUnder(q, to)}
        move == {q \in DOMAIN f : IsUnder(q, source)}
    IN  IF Parent(to) \notin DOMAIN f \/ f[Parent(to)].type # "dir"
        THEN [fs |-> f, err |-> "no such file or directory"]
        ELSE IF to \in DOMAIN f /\ ~(f[to].type = "file" /\ f[source].type = "file")
        THEN [fs |-> f, err |-> "file exists"]
        ELSE [fs |-> [q \in stay \cup {moved(m) : m \in move} |->
                        IF q \in stay THEN f[q]
                        ELSE f[CHOOSE m \in move : moved(m) = q]],
              err |-> ""]

\* symlink(source, dest), lines 164-179: os.Symlink(symRel, filepath.Base(symRel))
\* in the directory of source, symRel being dest as seen from that directory
Symlink(f, source, dest) ==
    LET dir == Real(f, Parent(source))
        link == Append(dir, LastOf(dest))
    IN  IF dir \notin DOMAIN f \/ f[dir].type # "dir"
        THEN [fs |-> f, err |-> "no such file or directory"]
        ELSE IF link \in DOMAIN f
        THEN [fs |-> f, err |-> "file exists"]
        ELSE [fs |-> [q \in DOMAIN f \cup {link} |->
                        IF q = link THEN LinkNode(link, dest)[2] ELSE f[q]],
              err |-> ""]

\* sealResource, line 519: dest
SealDest(rootPath, resource) == rootPath \o <<VersionsName, CurrentName, LastOf(resource)>>

\* sealResource, lines 521-524: osRename(resource, dest), then symlink(dest, resource)
sealResource(f, rootPath, resource) ==
    LET dest == SealDest(rootPath, resource)
        renamed == Rename(f, resource, dest)
    IN  IF renamed.err # "" THEN renamed
        ELSE Symlink(renamed.fs, dest, resource)

MvLine(source, dest) == <<"m","v">> \o Space \o PathString(source) \o Space \o PathString(dest)
LnLine(source, dest) ==
    <<"l","n">> \o Space \o <<"-","s">> \o Space \o PathString(dest) \o Space \o PathString(source)

exceptFix == <<inputVars, fileVars, reqUUID, findVars, submitVars, pollVars, stapleVars,
               signVars, zipVars, cmdErr>>

\* fixApp, lines 460-473: the function filepath.Walk calls for an entry
FixWalk ==
    /\ pc = "fix_walk"
    /\ work # <<>>
    /\ LET path == Head(work)
           st == fs0[path]
       IN  /\ IF st.type # "dir" /\ LastOf(path) = DSStore
              THEN IF dryRun
                   THEN /\ echo' = RmLine(PathString(path))
                        /\ UNCHANGED <<fs, trace>>
                   ELSE /\ fs' = Remove(fs, path)
                        /\ trace' = Append(trace, Event("remove", path))
                        /\ echo' = echo
              ELSE UNCHANGED <<fs, trace, echo>>
           /\ frameworks' = IF st.type = "dir" /\ Ext(LastOf(path)) = DotFramework
                            THEN Append(frameworks, path) ELSE frameworks
    /\ work' = Tail(work)
    /\ UNCHANGED <<exceptFix, fs0, pc, err>>

\* fixApp, lines 474-482, and fixFramework, line 492: the next framework
FixFramework ==
    /\ \/ pc = "fix_walk" /\ work = <<>>
       \/ pc = "fix_frameworks"
    /\ IF frameworks = <<>>
       THEN /\ pc' = "done"
            /\ UNCHANGED <<work, frameworks>>
       ELSE /\ pc' = "fix_entries"
            /\ work' = DirEntries(fs, Head(frameworks))
            /\ frameworks' = frameworks
    /\ UNCHANGED <<exceptFix, fs0, fs, trace, echo, err>>

\* fixFramework, lines 496-510: an entry of the root of the framework
FixEntry ==
    /\ pc = "fix_entries"
    /\ IF work = <<>>
       THEN /\ frameworks' = Tail(frameworks)
            /\ pc' = "fix_frameworks"
            /\ UNCHANGED <<work, fs, trace, echo, err>>
       ELSE LET e == Head(work)
                rootPath == Head(frameworks)
            IN  /\ work' = Tail(work)
                /\ frameworks' = frameworks
                /\ IF \/ fs[e].type = "symlink"
                      \/ (fs[e].type = "dir" /\ LastOf(e) = VersionsName)
                   THEN UNCHANGED <<fs, trace, echo, err, pc>>
                   ELSE IF dryRun
                   THEN /\ echo' = LnLine(SealDest(rootPath, e), e)
                        /\ UNCHANGED <<fs, trace, err, pc>>
                   ELSE LET sealed == sealResource(fs, rootPath, e)
                        IN  /\ fs' = sealed.fs
                            /\ trace' = Append(trace, Event("seal", e))
                            /\ err' = sealed.err
                            /\ pc' = IF sealed.err # "" THEN "done" ELSE pc
                            /\ echo' = echo
    /\ UNCHANGED <<exceptFix, fs0>>

\* the fix command is called for A.app
InitFix ==
    /\ pc = "fix_walk"
    /\ BundleRequest
    /\ verbose = 0
    /\ Fresh
    /\ SignIdle
    /\ ZipIdle
    /\ fs0 \in Bundles
    /\ fs = fs0
    /\ frameworks = <<>>
    /\ work = WalkOrder(fs0, <<AppA>>)

NextFix == FixWalk \/ FixFramework \/ FixEntry

SpecFix == InitFix /\ [][NextFix]_vars

----------------------------------------------------------------------------
(* Properties. *)

SubmitOps == {"openzip", "altool --notarize-app"}
WaitOps == {"altool --notarization-info", "sleep", "http.Get"}
StapleOps == {"TempDir", "unzip", "xcrun stapler staple", "spctl --assess", "zip", "rename"}
StaplePcs == {"staple_tempdir", "staple_unzip", "staple_staple", "staple_verify",
              "staple_zip", "staple_rename"}

Phase(op) == IF op \in SubmitOps THEN 1 ELSE IF op \in WaitOps THEN 2 ELSE 3

At(ops) == {i \in 1..Len(trace) : trace[i].op \in ops}
Queries == At({"altool --notarization-info"})
Sleeps == At({"sleep"})

LastAnswer == answers[Len(answers)]

\* the staple/verify step has begun, or has left something behind
Stapling ==
    \/ pc \in StaplePcs
    \/ At(StapleOps) # {}
    \/ stapleDir # "none"
    \/ zipAtPath # "original"

\* C1: the operations of a run are in the order submit, poll, staple/verify,
\* and no earlier step follows a later one; a run with a ticket does not
\* submit; stapling begins only after the service answered success and the
\* poller returned no error; once submission or polling has returned an error
\* the run is over with that error and nothing of the staple/verify step has
\* happened: no operation of it, no temporary directory, the zip not replaced.
C1_StepsInOrder ==
    /\ \A i, j \in 1..Len(trace) : i < j => Phase(trace[i].op) <= Phase(trace[j].op)
    /\ supplied # <<>> => At(SubmitOps) = {}
    /\ Cardinality(At({"altool --notarize-app"})) <= 1
    /\ Stapling =>
          /\ answers # <<>>
          /\ LastAnswer.status = "success"
          /\ waitErr = ""
          /\ submitErr = ""
    /\ submitErr # "" \/ waitErr # "" =>
          /\ ~Stapling
          /\ pc \in {"submit_ret", "done"}
          /\ pc = "done" => err = (IF submitErr # "" THEN submitErr ELSE waitErr)

\* a run that submitted, waited through an in progress answer, stapled and
\* replaced the zip
C1_Witness ==
    /\ pc = "done"
    /\ err = ""
    /\ supplied = <<>>
    /\ Sleeps # {}
    /\ zipAtPath = "stapled"

\* a run whose poller returned an error
C1_WitnessFailed ==
    /\ pc = "done"
    /\ waitErr # ""

\* C2 (state part): in a run with a ticket nothing of the submission happens
\* (the archive is not opened, no entry is read, the submission command does
\* not run), the first operation is a status query, and every status query is
\* for the supplied ticket; in a run without one every status query is for the
\* ticket that the submission returned.
C2_TicketUsed ==
    /\ supplied # <<>> =>
          /\ At(SubmitOps) = {}
          /\ opened = {} /\ pos = -1 /\ count = 0
          /\ reqUUID = supplied
          /\ trace # <<>> => trace[1] = Event("altool --notarization-info", supplied)
          /\ \A i \in Queries : trace[i].arg = supplied
    /\ supplied = <<>> =>
          /\ Queries # {} => ticket # <<>> /\ submitErr = ""
          /\ \A i \in Queries : trace[i].arg = ticket

\* C2 (step part): req.UUID changes only when the submission returns, from
\* the empty string to the ticket that it returned
C2_TicketSetOnce ==
    reqUUID' # reqUUID =>
        /\ reqUUID = <<>>
        /\ supplied = <<>>
        /\ pc = "submit_ret"
        /\ reqUUID' = ticket

\* C2: a supplied ticket skips the submission and is the ticket polled for;
\* otherwise the ticket is set once, to what the submission returned, and
\* polled for from then on.
C2_ResumeSkipsSubmission == []C2_TicketUsed /\ [][C2_TicketSetOnce]_vars

\* a run with a ticket that went through to the end
C2_Witness ==
    /\ supplied = T0
    /\ pc = "done"
    /\ err = ""
    /\ Cardinality(Queries) = 2

\* C3: an answer other than in progress is the last one of the run: no status
\* query and no sleep follows it.  When the round is over, success has made
\* the poller return without error, invalid with an error, an unrecognized
\* status with the unknown status error, an answer without a status line with
\* the unexpected format error.
C3_TerminalStatuses ==
    /\ \A i \in 1..Len(answers) : i < Len(answers) => answers[i].status = "in progress"
    /\ Cardinality(Queries) = Len(answers)
    /\ answers # <<>> /\ LastAnswer.status # "in progress" =>
          /\ \A i \in Sleeps : \E q \in Queries : i < q
          /\ pc \notin {"poll_query", "poll_sleep"}
          /\ pc \notin PollPcs =>
                CASE LastAnswer.status = "success" -> waitErr = ""
                  [] LastAnswer.status = "invalid" -> waitErr = "app notarization failed"
                  [] LastAnswer.status = "unrecognized" ->
                        waitErr = "unknown status" /\ status = <<"b","o","g","u","s">>
                  [] LastAnswer.status = "none" ->
                        waitErr = "unexpect output format from altool"
                  [] OTHER -> waitErr # ""

\* the poller returned on an unrecognized status, after one in progress answer
C3_Witness ==
    /\ pc = "done"
    /\ Len(answers) = 2
    /\ LastAnswer.status = "unrecognized"
    /\ waitErr = "unknown status"

\* the in progress answers whose round is over
Waited ==
    InProgressAnswers(answers) -
        (IF pc \in {"poll_round", "poll_sleep"} /\ LastAnswer.status = "in progress"
         THEN 1 ELSE 0)

\* C4: the poller has slept once for each in progress answer, for 10 seconds,
\* and for no other answer; a sleep comes right after the query that was
\* answered in progress and right before the next query; no two queries
\* follow each other without a sleep.  With the answers in progress, success
\* the run makes two queries and sleeps once before it staples.
C4_SleepPerInProgress ==
    /\ Cardinality(Sleeps) = Waited
    /\ \A i \in Sleeps :
          /\ trace[i].arg = <<10>>
          /\ i > 1 /\ (i - 1) \in Queries
          /\ answers[Cardinality({q \in Queries : q < i})].status = "in progress"
          /\ IF i = Len(trace) THEN pc = "poll_query" ELSE (i + 1) \in Queries
    /\ \A q \in Queries : q > 1 => (q - 1) \notin Queries
    /\ \A q \in Queries :
          (\E r \in Queries : r < q) => (q - 1) \in Sleeps
    /\ (Len(answers) = 2 /\ LastAnswer.status = "success" /\ pc \notin PollPcs) =>
          Cardinality(Queries) = 2 /\ Cardinality(Sleeps) = 1

\* the answers were in progress, success, and the run is about to staple
C4_Witness ==
    /\ pc = "staple_tempdir"
    /\ Len(answers) = 2
    /\ answers[1].status = "in progress"
    /\ answers[2].status = "success"
    /\ Cardinality(Sleeps) = 1

\* C5 (step part): the poller returns only on an answer other than in progress
C5_ReturnsOnlyOnAnswer ==
    (pc \in PollPcs /\ pc' \notin PollPcs) =>
        /\ answers # <<>>
        /\ LastAnswer.status # "in progress"
        /\ answers' = answers

\* C5 (state part): after an in progress answer the poller sleeps and queries
\* again, however many in progress answers came before
C5_KeepsPolling ==
    /\ pc = "poll_sleep" => LastAnswer.status = "in progress"
    /\ pc = "poll_query" => ENABLED PollQuery
    /\ (pc \in {"poll_round", "poll_sleep"} /\ LastAnswer.status = "in progress") =>
          waitErr = "" /\ err = ""

\* C5: the service answers in progress at most MaxInProgress times, and then
\* the poller eventually returns; it returns on no in progress answer, and
\* after each of them it goes on to the next query.
C5_NoRetryCeiling ==
    /\ <>(pc \notin PollPcs)
    /\ []C5_KeepsPolling
    /\ [][C5_ReturnsOnlyOnAnswer]_vars

\* the poller returned after as many in progress answers as the service gives
C5_Witness ==
    /\ pc \notin PollPcs
    /\ InProgressAnswers(answers) = MaxInProgress
    /\ Len(answers) = MaxInProgress + 1

Fetches == At({"http.Get"})

\* C6: the log is fetched at most once, only for an invalid answer with a log
\* URL line, from that URL, and nothing follows the fetch; after an invalid
\* answer the poller returns "app notarization failed", and so does the run,
\* whether there was no log URL, the fetch failed or it succeeded.
C6_InvalidAlwaysFails ==
    /\ Cardinality(Fetches) <= 1
    /\ (logFetch # "none") <=> (Fetches # {})
    /\ Fetches # {} =>
          /\ LastAnswer.status = "invalid" /\ LastAnswer.log
          /\ trace[Len(trace)] = Event("http.Get", LogURL)
          /\ pc = "done"
    /\ (answers # <<>> /\ LastAnswer.status = "invalid" /\ pc \notin PollPcs) =>
          /\ pc = "done"
          /\ waitErr = "app notarization failed"
          /\ err = "app notarization failed"
          /\ LastAnswer.log <=> logFetch \in {"failed", "fetched"}

\* the answer was invalid, the log could not be fetched
C6_Witness ==
    /\ pc = "done"
    /\ LastAnswer.status = "invalid"
    /\ logFetch = "failed"
    /\ err = "app notarization failed"

\* the lines of the captured output that were built with a ticket
LinesOf(kind) == {i \in 1..Len(buf) : buf[i].kind = kind}
First(S) == CHOOSE i \in S : \A j \in S : i <= j

\* what the claim expects of the captured output
ExpectedTicket ==
    IF LinesOf("primary") # {} THEN buf[First(LinesOf("primary"))].token
    ELSE IF LinesOf("alternate") # {} THEN buf[First(LinesOf("alternate"))].token
    ELSE <<>>

\* C7: when the submission command has run, submitForNotarization returns the
\* token of the first RequestUUID line if there is one, else the token of the
\* first upload ID line if there is one, else no ticket and an error.
C7_TicketParsing ==
    (pc = "submit_ret" /\ findErr = "" /\ cmdErr # "start") =>
        /\ ticket = ExpectedTicket
        /\ (ExpectedTicket # <<>>) <=> (submitErr = "")
        /\ submitErr \in {"", "can't find RequestUUID in notarization response"}

\* both patterns match, the upload ID line first: the RequestUUID token is returned
C7_Witness ==
    /\ pc = "submit_ret"
    /\ Len(buf) = 2
    /\ buf[1].kind = "alternate"
    /\ buf[2].kind = "primary"
    /\ ticket = buf[2].token
    /\ submitErr = ""

\* C8 (state part): after a non-zero exit of the submission command the
\* output decides as after a clean exit; after any other error of the command
\* the submission fails with that error whatever the output holds.  A failed
\* status query, with a non-zero exit or not started, is the last one: the
\* poller returns its error and the run ends.
C8_CommandErrors ==
    /\ (pc = "submit_ret" /\ findErr = "" /\ cmdErr = "exit") =>
          /\ ticket = ExpectedTicket
          /\ (ExpectedTicket # <<>>) <=> (submitErr = "")
    /\ (pc = "submit_ret" /\ findErr = "" /\ cmdErr = "start") =>
          /\ ticket = <<>>
          /\ submitErr = "start"
    /\ \A i \in 1..Len(answers) : answers[i].outcome # "" =>
          /\ i = Len(answers)
          /\ pc \in {"poll_round", "done"}
          /\ pc = "done" => waitErr = answers[i].outcome /\ err = answers[i].outcome
          /\ \A k \in Sleeps : \E q \in Queries : k < q

\* C8 (step part): a submission that found a ticket goes on to polling for it,
\* also after a non-zero exit
C8_ProceedsToPolling ==
    (pc = "submit_ret" /\ submitErr = "") =>
        /\ pc' = "poll_query"
        /\ reqUUID' = ticket
        /\ err' = ""

\* C8: a non-zero exit of the submission command is not fatal, any other
\* error of it is; every failure of the status query is fatal to the poller.
C8_ExitNotFatal == []C8_CommandErrors /\ [][C8_ProceedsToPolling]_vars

\* the submission command exited non-zero, a ticket was found, the run polls
C8_Witness ==
    /\ pc = "poll_query"
    /\ cmdErr = "exit"
    /\ supplied = <<>>
    /\ reqUUID = T1
    /\ answers = <<>>

\* the entries of the archive that were built as <name>.app/Contents/Info.plist
Primaries == {i \in 1..Len(archive) : archive[i].kind = "infoplist"}

\* C9: findPrimaryBundleID opens at most one entry, the first one in archive
\* order that is a <name>.app/Contents/Info.plist, and reads no entry after
\* it; it returns the identifier of that entry, or the decode error or key
\* error of that entry.  An Info.plist nested deeper is not opened.
C9_FirstInfoPlist ==
    /\ opened \subseteq Primaries
    /\ Cardinality(opened) <= 1
    /\ (pc = "find_ret" /\ Primaries = {}) => opened = {}
    /\ (pc = "find_ret" /\ Primaries # {}) =>
          LET f == First(Primaries)
              body == archive[f].body
          IN  /\ opened = {f}
              /\ pos = f - 1
              /\ count = f
              /\ \A id \in {IdA, IdB, IdN} :
                    body = PlistOf(id) => bundleID = id /\ findErr = ""
              /\ body = NotAPlist => findErr = "plist decode error"
              /\ body = PlistNoKey => findErr = "key not found"
              /\ body = PlistWrongType => findErr = "invalid type"
              /\ findErr # "" => bundleID = <<>>

\* a nested Info.plist comes first and is passed over; the Info.plist of
\* B.app after it gives the identifier
C9_Witness ==
    /\ pc = "find_ret"
    /\ Len(archive) = 2
    /\ archive[1].kind = "nested"
    /\ archive[2].kind = "infoplist"
    /\ opened = {2}
    /\ bundleID = IdB
    /\ findErr = ""

\* C10: for an archive whose only entry is an executable file X at the root,
\* findPrimaryBundleID returns com.example.X and opens no entry.
C10_SingleExecutable ==
    (/\ pc = "find_ret"
     /\ Len(archive) = 1
     /\ archive[1].kind = "rootfile"
     /\ archive[1].mode = 493) =>
        /\ bundleID = <<"c","o","m",".","e","x","a","m","p","l","e",".">> \o archive[1].name
        /\ findErr = ""
        /\ opened = {}

\* the archive holds the executable tool alone: com.example.tool
C10_Witness ==
    /\ pc = "find_ret"
    /\ Len(archive) = 1
    /\ archive[1].kind = "rootfile"
    /\ archive[1].mode = 493
    /\ bundleID = <<"c","o","m",".","e","x","a","m","p","l","e",".","t","o","o","l">>

----------------------------------------------------------------------------
(* Claims on the failure of the extraction, the dry run and the echo. *)

\* the archive has no <name>.app/Contents/Info.plist, and is not one
\* executable file at the root
NeitherCondition ==
    /\ Primaries = {}
    /\ ~(/\ Len(archive) = 1
         /\ archive[1].kind = "rootfile"
         /\ archive[1].mode = 493)

\* the submission command was invoked
Submitted == \E i \in 1..Len(trace) : trace[i].op = "altool --notarize-app"

\* C11: for an archive with no <name>.app/Contents/Info.plist that is not a
\* single executable file at the root (an empty archive, an entry inside a
\* directory, a single file at the root that is not executable),
\* findPrimaryBundleID fails with "could not find Info.plist" and the
\* submission command is never invoked.
C11_NeitherConditionFails ==
    NeitherCondition =>
        /\ pc = "find_ret" => findErr = "could not find Info.plist" /\ bundleID = <<>>
        /\ ~Submitted

\* the operations of the trace that start no process and change no file
ReadOps == {"openzip"}

\* C12: with the dry-run flag set, a run starts no external process and
\* changes nothing in the file system: no submission, no status query, no
\* temporary directory, no unzip, staple, zip or rename.
C12_DryRunDoesNothing ==
    dryRun =>
        /\ \A i \in 1..Len(trace) : trace[i].op \in ReadOps
        /\ stapleDir = "none"
        /\ zipAtPath = "original"

\* sub occurs in s
Contains(s, sub) == \E i \in 1..(Len(s) - Len(sub) + 1) : SubSeq(s, i, i + Len(sub) - 1) = sub

\* the placeholder an echoed password is replaced by
Placeholder == <<"X","x","X","x","X","x","X","x","X","x","X","x","X","x","X","x","X">>

\* C13: the echoed command line never holds the account secret: the argument
\* after --password is echoed as the placeholder, so that the echo is the
\* same for every password.
C13_PasswordRedacted ==
    echo # <<>> =>
        /\ ~Contains(echo, password)
        /\ Contains(echo, ArgPassword) =>
              Contains(echo, ArgPassword \o Space \o Placeholder)

----------------------------------------------------------------------------
(* Claims on the staple/verify step. *)

\* the payload is an app bundle: the archive holds something below <name>.app
PayloadIsBundle ==
    \E i \in 1..Len(archive) :
        \/ archive[i].kind \in {"infoplist", "nested"}
        \/ archive[i].name = AppA \o Slash

\* the payload is a bare executable: one executable file at the root
PayloadIsExecutable ==
    /\ Len(archive) = 1
    /\ archive[1].kind = "rootfile"
    /\ archive[1].mode = 493

IsStapleEvent(e) == e.op \in StapleOps
\* the operations of the staple/verify step so far, in order
StapleTrace ==
    LET evs == SelectSeq(trace, IsStapleEvent)
    IN  [i \in 1..Len(evs) |-> evs[i].op]

\* the signature verification runs, unless the run is a dry run
VerifyOps == IF dryRun THEN <<>> ELSE <<"spctl --assess">>

\* the operations of a staple/verify step in which every operation succeeds
StapleSteps ==
    IF PayloadIsBundle
    THEN <<"TempDir", "unzip", "xcrun stapler staple">> \o VerifyOps \o <<"zip", "rename">>
    ELSE <<"TempDir", "unzip">> \o VerifyOps

IsPrefix(a, b) == Len(a) <= Len(b) /\ SubSeq(b, 1, Len(a)) = a

\* C14: the zip at the original path is replaced only for an app bundle,
\* after unzip, the staple command, the signature verification and the
\* re-compression succeeded, in that order, and a step runs only when the
\* step before it returned no error; when a step fails, or the payload is a
\* bare executable, the original zip stays.  For a bare executable only the
\* signature verification runs: no staple command, no re-compression.
C14_ReplacedAfterAllSteps ==
    /\ IsPrefix(StapleTrace, StapleSteps)
    /\ pc \in {"staple_staple", "staple_verify", "staple_zip", "staple_rename"} =>
          /\ cmdErr = ""
          /\ zipAtPath = "original"
    /\ zipAtPath = "stapled" =>
          /\ PayloadIsBundle
          /\ unzipped.canStaple
          /\ StapleTrace = StapleSteps
          /\ cmdErr = ""
          /\ pc = "done"
          /\ err = ""
    /\ (pc = "done" /\ StapleTrace # <<>> /\ cmdErr # "") =>
          /\ err = cmdErr
          /\ zipAtPath = "original"
    /\ (pc = "done" /\ err # "") => zipAtPath = "original"
    /\ (pc = "done" /\ err = "" /\ PayloadIsBundle) => zipAtPath = "stapled"
    /\ PayloadIsExecutable =>
          /\ zipAtPath = "original"
          /\ ~unzipped.canStaple
          /\ (pc = "done" /\ err = "") => StapleTrace = StapleSteps

\* the zip of an app bundle was replaced after a verification that ran
C14_Witness ==
    /\ pc = "done"
    /\ err = ""
    /\ ~dryRun
    /\ PayloadIsBundle
    /\ zipAtPath = "stapled"
    /\ StapleTrace = <<"TempDir", "unzip", "xcrun stapler staple", "spctl --assess", "zip", "rename">>

\* a bare executable was verified and its zip was left as it was
C14_WitnessExecutable ==
    /\ pc = "done"
    /\ err = ""
    /\ ~dryRun
    /\ PayloadIsExecutable
    /\ zipAtPath = "original"
    /\ StapleTrace = <<"TempDir", "unzip", "spctl --assess">>

\* ioutil.TempDir made the temporary directory
TempDirMade == At({"TempDir"}) # {}

\* C15: the temporary directory exists only while stapleAndVerify runs: once
\* the run is over it is removed, whether the step succeeded or unzip,
\* staple, verification, re-compression or rename failed; a run that ends
\* before the staple/verify step never made one.
C15_TempDirRemoved ==
    /\ stapleDir = "none" <=> ~TempDirMade
    /\ stapleDir = "exists" => pc \in StaplePcs \ {"staple_tempdir"}
    /\ (pc = "done" /\ TempDirMade) => stapleDir = "removed"
    /\ (submitErr # "" \/ waitErr # "") => stapleDir = "none" /\ ~TempDirMade
    /\ Cardinality(At({"TempDir"})) <= 1

\* the signature verification failed and the directory is gone
C15_Witness ==
    /\ pc = "done"
    /\ err = "exit"
    /\ StapleTrace = <<"TempDir", "unzip", "xcrun stapler staple", "spctl --assess">>
    /\ stapleDir = "removed"

----------------------------------------------------------------------------
(* Claims on notarizeFile. *)

\* the zip that stands for the artifact of the request: the artifact itself,
\* or <name>.zip next to it
ZipOfArtifact ==
    IF artifact = AppA THEN ZipA
    ELSE IF artifact = ToolName THEN ToolZip
    ELSE artifact

\* the positions of notarizePayload and its callees
PipelinePcs ==
    {"start", "find_open", "find_loop", "find_ret", "submit_scan", "submit_ret"}
    \cup PollPcs \cup StaplePcs

\* the calls of the archiver before the staple/verify step
ArchiverCalls == {i \in At({"zip"}) : \A j \in At({"TempDir"}) : i < j}

\* C16: a request with no username, or for an artifact that is neither .zip
\* nor .app nor without extension, ends with an error and no external
\* operation at all.  For a .app or an artifact without extension the
\* archiver runs first, on the artifact, and the pipeline works on
\* <name>.zip next to it: that path is submitted and unzipped.  For a .zip
\* the archiver is not called and the pipeline works on the artifact.
C16_FailFastAndZipFirst ==
    /\ (username = <<>> /\ pc # "notarize_file") =>
          /\ pc = "done"
          /\ err = "missing username"
          /\ trace = <<>>
          /\ echo = <<>>
    /\ (artifact = DmgA /\ pc # "notarize_file") =>
          /\ pc = "done"
          /\ err # ""
          /\ trace = <<>>
          /\ echo = <<>>
    /\ (username = <<>> \/ artifact = DmgA) =>
          \A p \in Paths : files[p] # "absent" => p = artifact
    /\ artifact \in {AppA, ToolName} =>
          /\ trace # <<>> => trace[1] = Event("zip", artifact)
          /\ ArchiverCalls \subseteq {1}
          /\ pc \in PipelinePcs =>
                /\ ArchiverCalls = {1}
                /\ appPath = ZipOfArtifact
                /\ files[appPath] = "zip"
          /\ Len(trace) >= 2 => appPath = ZipOfArtifact
    /\ artifact = ZipA =>
          /\ ArchiverCalls = {}
          /\ appPath = artifact
    /\ (\E i \in 1..Len(trace) : trace[i].op \in SubmitOps \cup WaitOps \cup {"TempDir"}) =>
          /\ username # <<>>
          /\ artifact # DmgA
    /\ pc = "submit_scan" =>
          Contains(echo, ArgFile \o Space \o ZipOfArtifact)
    /\ (pc \in {"staple_staple", "staple_verify"} /\ trace[Len(trace)].op = "unzip") =>
          echo = ArgUnzip \o Space \o Cwd \o Slash \o ZipOfArtifact

\* the bundle A.app was compressed to A.zip, which was submitted and stapled
C16_Witness ==
    /\ pc = "done"
    /\ err = ""
    /\ artifact = AppA
    /\ supplied = <<>>
    /\ trace[1] = Event("zip", AppA)
    /\ appPath = ZipA
    /\ zipAtPath = "stapled"

\* a request for A.dmg was turned down
C16_WitnessUnsupported ==
    /\ pc = "done"
    /\ artifact = DmgA
    /\ username # <<>>
    /\ err # ""
    /\ trace = <<>>

\* C17 as claimed: after a successful run the path the request named is a
\* zip archive, for a .zip, a .app and a path without extension.
C17_OriginalPathIsZip ==
    (pc = "done" /\ err = "") => files[artifact] = "zip"

\* C17, amended: after a successful run the zip of the artifact (the path
\* itself for a .zip, <name>.zip next to it for a .app or a path without
\* extension) is a zip archive, replaced by the stapled one when the payload
\* is a bundle; a .app or a file without extension stays at its path as it was.
C17_ZipOfArtifactIsZip ==
    (pc = "done" /\ err = "") =>
        /\ appPath = ZipOfArtifact
        /\ Ext(appPath) = DotZip
        /\ files[appPath] = "zip"
        /\ PayloadIsBundle => zipAtPath = "stapled"
        /\ ~PayloadIsBundle => zipAtPath = "original"
        /\ artifact = AppA => files[artifact] = "dir" /\ PayloadIsBundle
        /\ artifact = ToolName => files[artifact] = "exe" /\ PayloadIsExecutable

\* the run for A.app is over: A.app is a directory still, A.zip is the zip
C17_Witness ==
    /\ pc = "done"
    /\ err = ""
    /\ artifact = AppA
    /\ files[AppA] = "dir"
    /\ files[ZipA] = "zip"
    /\ zipAtPath = "stapled"

----------------------------------------------------------------------------
(* Claims on the sign command. *)

\* the entries of the tree that are to be signed, by what they were made as
SignableEntries ==
    {p \in tree :
        \/ NodeOf(LastOf(p)).label \in {"bundle", "dylib", "executable"}
        \/ /\ ~NodeOf(LastOf(p)).isDir
           /\ Len(p) > 1
           /\ LastOf(Parent(p)) = HelpersName}

\* p lies inside the directory q
Inside(p, q) == Len(p) > Len(q) /\ SubSeq(p, 1, Len(q)) = q

SignedSet == {signed[i] : i \in 1..Len(signed)}
Verified == At({"spctl --assess"}) # {}

\* C18: signEntry is called for signable entries only and once for each; an
\* entry inside a signable directory is signed before that directory; the
\* root is signed last; the signature of the root is verified only after
\* every signable entry was signed with no error; a run that ends with no
\* error has signed them all.  When a signing fails the run is over with
\* that error: nothing is signed after it, no directory around the failed
\* entry is signed and nothing is verified.
C18_InnerBeforeOuter ==
    /\ SignedSet \subseteq SignableEntries
    /\ \A i, j \in 1..Len(signed) : i < j => signed[i] # signed[j]
    /\ \A j \in 1..Len(signed) : \A p \in SignableEntries :
          Inside(p, signed[j]) => \E i \in 1..(j - 1) : signed[i] = p
    /\ \A j \in 1..Len(signed) :
          signed[j] = RootOf(tree) => j = Len(signed) /\ SignedSet = SignableEntries
    /\ (pc = "sign_verify" \/ Verified) =>
          /\ SignedSet = SignableEntries
          /\ Cardinality(At({"codesign"})) = (IF dryRun THEN 0 ELSE Len(signed))
    /\ pc = "sign_verify" => cmdErr = ""
    /\ (pc = "done" /\ err = "") => SignedSet = SignableEntries
    /\ cmdErr # "" => pc = "done" /\ err = cmdErr
    /\ (cmdErr # "" /\ ~Verified) =>
          /\ signed # <<>>
          /\ \A i \in 1..Len(signed) : ~Inside(signed[Len(signed)], signed[i])
          /\ trace[Len(trace)] = Event("codesign", PathString(signed[Len(signed)]))

\* A.app holds B.xpc, which holds the executable run: run, B.xpc and A.app
\* were signed in this order, and A.app was verified
C18_Witness ==
    /\ pc = "done"
    /\ err = ""
    /\ ~dryRun
    /\ signed = <<<<AppA, XpcB, RunName>>, <<AppA, XpcB>>, <<AppA>>>>
    /\ Verified

\* the signing of run failed: B.xpc and A.app were not signed
C18_WitnessFailed ==
    /\ pc = "done"
    /\ err = "exit"
    /\ signed = <<<<AppA, XpcB, RunName>>>>
    /\ ~Verified


ZipOps == [i \in 1..Len(trace) |-> trace[i].op]
BundleRemovals == {i \in 1..Len(trace) : trace[i].op = "removeall"}

\* C19: the zip command never loses data: an output that exists without -f
\* makes it fail with "already exists" with nothing removed and the archiver
\* not run; with -d the bundle is removed only right after a successful run of
\* the archiver, so that a failed removal of the old output or a failed archiver
\* leaves the bundle in place; and an output is removed only with -f.
C19_ZipNeverLosesData ==
    /\ (~Force /\ outputFile = "old" /\ pc \notin {"zip_output", "zip_stat"}) =>
          /\ pc = "done"
          /\ output # <<>> => err = "already exists"
          /\ err # ""
          /\ trace = <<>>
          /\ appBundle = "present"
    /\ \A i \in BundleRemovals :
          /\ Delete
          /\ i > 1
          /\ trace[i - 1].op = "ditto"
          /\ cmdErr = ""
    /\ appBundle = "removed" => BundleRemovals # {}
    /\ (cmdErr # "" \/ err = "error removing") =>
          /\ appBundle = "present"
          /\ BundleRemovals = {}
    /\ \A i \in 1..Len(trace) : trace[i].op = "remove" => Force
    /\ dryRun => trace = <<>> /\ appBundle = "present"

\* -d and -f with an old output: the old output is removed, the archive made
\* and then the bundle removed
C19_Witness ==
    /\ pc = "done"
    /\ Delete
    /\ Force
    /\ err = ""
    /\ ZipOps = <<"remove", "ditto", "removeall">>
    /\ outputFile = "new"
    /\ appBundle = "removed"

\* an old output without -f: the command stops with "already exists"
C19_WitnessRefused ==
    /\ pc = "done"
    /\ ~Force
    /\ Delete
    /\ outputFile = "old"
    /\ err = "already exists"

\* the archiver failed with -d: the bundle is still there
C19_WitnessArchiverFailed ==
    /\ pc = "done"
    /\ Delete
    /\ ~dryRun
    /\ cmdErr # ""
    /\ ZipOps = <<"remove", "ditto">>
    /\ appBundle = "present"


Frameworks0 == {p \in DOMAIN fs0 : fs0[p].type = "dir" /\ Ext(LastOf(p)) = DotFramework}
RootEntries(f, root) == {p \in DOMAIN f : Len(p) = Len(root) + 1 /\ Parent(p) = root}
Allowed(f, p) == f[p].type = "symlink" \/ (f[p].type = "dir" /\ LastOf(p) = VersionsName)
IsDSStore(f, p) == f[p].type # "dir" /\ LastOf(p) = DSStore
Unsealed0(root) == {p \in RootEntries(fs0, root) : ~Allowed(fs0, p) /\ ~IsDSStore(fs0, p)}
\* the framework has a Versions/Current directory to move the resources to
Sealable ==
    \A root \in Frameworks0 :
        LET current == Real(fs0, root \o <<VersionsName, CurrentName>>)
        IN  current \in DOMAIN fs0 /\ fs0[current].type = "dir"
SealedAt(root, p) ==
    LET there == Real(fs, SealDest(root, p))
    IN  /\ there \in DOMAIN fs
        /\ fs[there].id = p
        /\ p \in DOMAIN fs
        /\ fs[p].type = "symlink"
        /\ Real(fs, p) = there
FixPost ==
    /\ \A root \in Frameworks0 :
          /\ \A p \in Unsealed0(root) : SealedAt(root, p)
          /\ \A p \in RootEntries(fs, root) : Allowed(fs, p)
          /\ \A p \in RootEntries(fs0, root) :
                Allowed(fs0, p) => p \in DOMAIN fs /\ fs[p] = fs0[p]
    /\ \A p \in DOMAIN fs : ~IsDSStore(fs, p)

\* C20: the fix command seals the unsealed resources of the frameworks: when
\* fix has ended, not in a dry run, on a bundle whose frameworks have a
\* Versions/Current directory, it has succeeded, and after it succeeded every
\* root entry of a framework that was neither a link nor Versions is at
\* Versions/Current/<name> with a link to it at its old place, the links and
\* Versions are as they were, and no .DS_Store file is left.
C20_FixSealsResources ==
    (pc = "done" /\ ~dryRun) =>
        /\ Sealable => err = ""
        /\ err = "" => FixPost

\* the second half alone: what holds after fix returned nil
C20_AfterSuccess == (pc = "done" /\ ~dryRun /\ err = "") => FixPost

====
